---- MODULE Spec2Model ----
(***************************************************************************)
(* Model of the simulated broker of irontrade                              *)
(* (src/src/simulated/broker.rs): the balance and buying-power ledgers,    *)
(* the price table, the order table, place_order and                       *)
(* set_notional_per_unit.                                                  *)
(*                                                                         *)
(* Num (num_decimal::Num) is an exact rational: it is modelled as a        *)
(* reduced fraction [num, den] with den > 0, so that equality of Nums is   *)
(* equality of records.  Option<T> is modelled as a sequence of length 0   *)
(* (None) or 1 (Some).  Asset names and asset symbols are sequences of     *)
(* characters, so that AssetPair's Display and FromStr are modelled by     *)
(* what they do.                                                           *)
(***************************************************************************)
EXTENDS Integers, Sequences, FiniteSets, TLC

(***************************************************************************)
(* Bounds of the model.                                                    *)
(***************************************************************************)
\* place_order is attempted only while the order table holds fewer orders
MaxOrders == 2
\* number of set_notional_per_unit calls explored
MaxPriceUpdates == 2
MaxTime == 4
MaxCalls == 3
MaxLen == 3
MaxNameLen == 2

(***************************************************************************)
(* Num: exact rational arithmetic.                                         *)
(***************************************************************************)
Abs(x) == IF x < 0 THEN -x ELSE x

RECURSIVE GCD(_, _)
GCD(a, b) == IF b = 0 THEN a ELSE GCD(b, a % b)

\* the reduced fraction n/d, d # 0
Norm(n, d) ==
    LET s == IF d < 0 THEN -1 ELSE 1
        g == GCD(Abs(n), Abs(d))
    IN  [num |-> (s * n) \div g, den |-> (s * d) \div g]

\* Num::from(i)
R(i) == [num |-> i, den |-> 1]
\* the fraction n/d as a Num
Frac(n, d) == Norm(n, d)

Zero == R(0)

NumAdd(a, b) == Norm(a.num * b.den + b.num * a.den, a.den * b.den)
NumNeg(a)    == [num |-> -a.num, den |-> a.den]
NumSub(a, b) == NumAdd(a, NumNeg(b))
NumMul(a, b) == Norm(a.num * b.num, a.den * b.den)
\* defined for b # 0 (Num's division panics on a zero divisor)
NumDiv(a, b) == Norm(a.num * b.den, a.den * b.num)
NumLt(a, b)  == a.num * b.den < b.num * a.den
NumLe(a, b)  == a.num * b.den <= b.num * a.den

(***************************************************************************)
(* Option<T>.                                                              *)
(***************************************************************************)
None == << >>
Some(v) == << v >>
IsSome(o) == Len(o) = 1
Unwrap(o) == o[1]

(***************************************************************************)
(* AssetPair, its Display and its FromStr.                                 *)
(***************************************************************************)
USD == << "U", "S", "D" >>
GBP == << "G", "B", "P" >>
BTC == << "B", "T", "C" >>

AssetPair(q, n) == [quantity_asset |-> q, notional_asset |-> n]

\* impl Display for AssetPair: "{quantity_asset}/{notional_asset}"
to_string(asset_pair) ==
    asset_pair.quantity_asset \o << "/" >> \o asset_pair.notional_asset

\* str::split("/"): the tokens of s between the separators
RECURSIVE split(_, _, _)
split(s, cur, acc) ==
    IF s = << >> THEN Append(acc, cur)
    ELSE IF Head(s) = "/" THEN split(Tail(s), << >>, Append(acc, cur))
    ELSE split(Tail(s), Append(cur, Head(s)), acc)

\* from_str reading the notional asset first
from_str_reversed(s) ==
    LET tokens == split(s, << >>, << >>)
    IN  IF Len(tokens) < 2
        THEN [panic |-> TRUE, pair |-> AssetPair(<< >>, << >>)]
        ELSE [panic |-> FALSE, pair |-> AssetPair(tokens[2], tokens[1])]

\* impl FromStr for AssetPair: tokens[0] is the quantity asset, tokens[1]
\* the notional asset (indexing panics when there is no "/")
from_str(s) ==
    LET tokens == split(s, << >>, << >>)
    IN  IF Len(tokens) < 2
        THEN [panic |-> TRUE, pair |-> AssetPair(<< >>, << >>)]
        ELSE [panic |-> FALSE, pair |-> AssetPair(tokens[1], tokens[2])]

(***************************************************************************)
(* Amount, OrderRequest, Order.                                            *)
(***************************************************************************)
Quantity(q) == [kind |-> "Quantity", value |-> q]
Notional(n) == [kind |-> "Notional", value |-> n]

OrderRequest(asset_pair, amount, limit_price, side) ==
    [asset_pair |-> asset_pair, amount |-> amount,
     limit_price |-> limit_price, side |-> side]

(***************************************************************************)
(* The broker.  A broker value b is the record of the fields of            *)
(* SimulatedBroker (currency, notional_assets, buying_power_balances,      *)
(* orders, notional_per_unit, balances; the maps are functions whose       *)
(* domain is the set of keys present) together with three history fields   *)
(* that no operation reads:                                                *)
(*   reserved[id]  the asset and amount queue_order deducted for order id  *)
(*   filled        the ids fill_order_immediately settled in the current   *)
(*                 call of place_order / set_notional_per_unit             *)
(*   evaluated     the ids on which maybe_update_order ran to its end in   *)
(*                 the current call                                        *)
(* Every operation returns [result, b]: result is "Ok", the error the      *)
(* code returns, or "panic"; b is the broker as the operation left it.     *)
(***************************************************************************)
Ok == "Ok"
InvalidNotionalAsset == "InvalidNotionalAsset"
NoNotionalPerUnit == "NoNotionalPerUnit"
InsufficientBuyingPower == "InsufficientBuyingPower"
Panic == "panic"

\* SimulatedBroker::get_asset_value: a missing key reads as 0
get_asset_value(values, asset) ==
    IF asset \in DOMAIN values THEN values[asset] ELSE Zero

\* SimulatedBroker::update_value: additive, creates the key
update_value(values, asset, delta) ==
    [a \in (DOMAIN values) \cup {asset} |->
        IF a = asset THEN NumAdd(get_asset_value(values, asset), delta)
        ELSE values[a]]

get_buying_power(b, asset) == get_asset_value(b.buying_power_balances, asset)

get_balance(b, asset) == get_asset_value(b.balances, asset)

update_balance(b, asset, delta) ==
    [b EXCEPT !.balances = update_value(@, asset, delta)]

update_buying_power(b, asset, delta) ==
    [b EXCEPT !.buying_power_balances = update_value(@, asset, delta)]

check_notional(b, asset_pair) ==
    IF asset_pair.notional_asset \notin b.notional_assets
    THEN InvalidNotionalAsset
    ELSE Ok

\* get_notional_per_unit reading a missing price as 1
get_notional_per_unit_defaulting(b, asset_pair) ==
    LET lookup(checked) ==
            IF checked # Ok THEN [result |-> checked, value |-> Zero]
            ELSE IF asset_pair \in DOMAIN b.notional_per_unit
            THEN [result |-> Ok, value |-> b.notional_per_unit[asset_pair]]
            ELSE [result |-> Ok, value |-> R(1)]
    IN  lookup(check_notional(b, asset_pair))

get_notional_per_unit(b, asset_pair) ==
    LET lookup(checked) ==
            IF checked # Ok THEN [result |-> checked, value |-> Zero]
            ELSE IF asset_pair \in DOMAIN b.notional_per_unit
            THEN [result |-> Ok, value |-> b.notional_per_unit[asset_pair]]
            ELSE [result |-> NoNotionalPerUnit, value |-> Zero]
    IN  lookup(check_notional(b, asset_pair))

\* get_current_quantity_and_notional multiplying a notional by the price
get_current_quantity_and_notional_multiplying(b, asset_symbol, amount) ==
    LET failed(r) == [result |-> r, quantity |-> Zero, notional |-> Zero]
        at_price(npu) ==
            IF npu.result # Ok THEN failed(npu.result)
            ELSE IF amount.kind = "Quantity"
            THEN [result |-> Ok,
                  quantity |-> amount.value,
                  notional |-> NumMul(amount.value, npu.value)]
            ELSE IF npu.value = Zero THEN failed(Panic)
            ELSE [result |-> Ok,
                  quantity |-> NumMul(amount.value, npu.value),
                  notional |-> amount.value]
        of_pair(parsed) ==
            IF parsed.panic THEN failed(Panic)
            ELSE at_price(get_notional_per_unit(b, parsed.pair))
    IN  of_pair(from_str(asset_symbol))

\* (quantity, notional) of an amount at the current price of the pair
get_current_quantity_and_notional(b, asset_symbol, amount) ==
    LET failed(r) == [result |-> r, quantity |-> Zero, notional |-> Zero]
        at_price(npu) ==
            IF npu.result # Ok THEN failed(npu.result)
            ELSE IF amount.kind = "Quantity"
            THEN [result |-> Ok,
                  quantity |-> amount.value,
                  notional |-> NumMul(amount.value, npu.value)]
            ELSE IF npu.value = Zero THEN failed(Panic)
            ELSE [result |-> Ok,
                  quantity |-> NumDiv(amount.value, npu.value),
                  notional |-> amount.value]
        of_pair(parsed) ==
            IF parsed.panic THEN failed(Panic)
            ELSE at_price(get_notional_per_unit(b, parsed.pair))
    IN  of_pair(from_str(asset_symbol))

\* the reservation of a limit buy taken at the current price, not the limit
get_asset_and_buying_power_needed_at_market(b, order) ==
    LET needed(parsed, qn) ==
            IF parsed.panic
            THEN [result |-> Panic, asset |-> << >>, needed |-> Zero]
            ELSE IF qn.result # Ok
            THEN [result |-> qn.result, asset |-> << >>, needed |-> Zero]
            ELSE IF order.side = "Buy"
            THEN [result |-> Ok,
                  asset |-> parsed.pair.notional_asset,
                  needed |-> qn.notional]
            ELSE [result |-> Ok,
                  asset |-> parsed.pair.quantity_asset,
                  needed |-> qn.quantity]
    IN  needed(from_str(order.asset_symbol),
               get_current_quantity_and_notional(b, order.asset_symbol,
                                                 order.amount))

\* the asset whose buying power an order reserves, and how much of it
get_asset_and_buying_power_needed(b, order) ==
    LET needed(parsed, qn) ==
            IF parsed.panic
            THEN [result |-> Panic, asset |-> << >>, needed |-> Zero]
            ELSE IF qn.result # Ok
            THEN [result |-> qn.result, asset |-> << >>, needed |-> Zero]
            ELSE IF order.side = "Buy"
            THEN [result |-> Ok,
                  asset |-> parsed.pair.notional_asset,
                  needed |-> IF IsSome(order.limit_price)
                             THEN NumMul(Unwrap(order.limit_price), qn.quantity)
                             ELSE qn.notional]
            ELSE [result |-> Ok,
                  asset |-> parsed.pair.quantity_asset,
                  needed |-> qn.quantity]
    IN  needed(from_str(order.asset_symbol),
               get_current_quantity_and_notional(b, order.asset_symbol,
                                                 order.amount))

\* queue_order deducting the reservation before it checks the buying power
queue_order_reserving_first(b, order) ==
    LET insert(b1, abp) ==
            [b1 EXCEPT
               !.orders = [i \in (DOMAIN b1.orders) \cup {order.order_id} |->
                              IF i = order.order_id THEN order
                              ELSE b1.orders[i]],
               !.reserved = [i \in (DOMAIN b1.reserved) \cup {order.order_id} |->
                              IF i = order.order_id
                              THEN [asset |-> abp.asset, amount |-> abp.needed]
                              ELSE b1.reserved[i]]]
        reserve(abp) ==
            IF abp.result # Ok THEN [result |-> abp.result, b |-> b]
            ELSE IF NumLt(get_buying_power(b, abp.asset), abp.needed)
            THEN [result |-> InsufficientBuyingPower,
                  b |-> update_buying_power(b, abp.asset, NumNeg(abp.needed))]
            ELSE [result |-> Ok,
                  b |-> insert(update_buying_power(b, abp.asset,
                                                   NumNeg(abp.needed)), abp)]
    IN  reserve(get_asset_and_buying_power_needed(b, order))

\* queue_order checking the reservation against the settled balance
queue_order_checking_balance(b, order) ==
    LET insert(b1, abp) ==
            [b1 EXCEPT
               !.orders = [i \in (DOMAIN b1.orders) \cup {order.order_id} |->
                              IF i = order.order_id THEN order
                              ELSE b1.orders[i]],
               !.reserved = [i \in (DOMAIN b1.reserved) \cup {order.order_id} |->
                              IF i = order.order_id
                              THEN [asset |-> abp.asset, amount |-> abp.needed]
                              ELSE b1.reserved[i]]]
        reserve(abp) ==
            IF abp.result # Ok THEN [result |-> abp.result, b |-> b]
            ELSE IF NumLt(get_balance(b, abp.asset), abp.needed)
            THEN [result |-> InsufficientBuyingPower, b |-> b]
            ELSE [result |-> Ok,
                  b |-> insert(update_buying_power(b, abp.asset,
                                                   NumNeg(abp.needed)), abp)]
    IN  reserve(get_asset_and_buying_power_needed(b, order))

queue_order(b, order) ==
    LET insert(b1, abp) ==
            [b1 EXCEPT
               !.orders = [i \in (DOMAIN b1.orders) \cup {order.order_id} |->
                              IF i = order.order_id THEN order
                              ELSE b1.orders[i]],
               !.reserved = [i \in (DOMAIN b1.reserved) \cup {order.order_id} |->
                              IF i = order.order_id
                              THEN [asset |-> abp.asset, amount |-> abp.needed]
                              ELSE b1.reserved[i]]]
        reserve(abp) ==
            IF abp.result # Ok THEN [result |-> abp.result, b |-> b]
            ELSE IF NumLt(get_buying_power(b, abp.asset), abp.needed)
            THEN [result |-> InsufficientBuyingPower, b |-> b]
            ELSE [result |-> Ok,
                  b |-> insert(update_buying_power(b, abp.asset,
                                                   NumNeg(abp.needed)), abp)]
    IN  reserve(get_asset_and_buying_power_needed(b, order))

\* fill_order_immediately charging a limit buy at its limit price
fill_order_immediately_at_limit(b, order_id) ==
    LET refund(b3, order, qn, pair) ==
            IF IsSome(order.limit_price)
            THEN update_buying_power(b3, pair.notional_asset,
                     NumSub(NumMul(Unwrap(order.limit_price), qn.quantity),
                            qn.notional))
            ELSE b3
        buy(order, qn, pair) ==
            refund(
              update_buying_power(
                update_balance(
                  update_balance(b, pair.notional_asset,
                      IF IsSome(order.limit_price)
                      THEN NumNeg(NumMul(Unwrap(order.limit_price),
                                         qn.quantity))
                      ELSE NumNeg(qn.notional)),
                  pair.quantity_asset, qn.quantity),
                pair.quantity_asset, qn.quantity),
              order, qn, pair)
        sell(order, qn, pair) ==
            update_balance(
              update_buying_power(
                update_balance(b, pair.notional_asset, qn.notional),
                pair.notional_asset, qn.notional),
              pair.quantity_asset, NumNeg(qn.quantity))
        record(settled, order, qn) ==
            IF qn.quantity = Zero THEN [result |-> Panic, b |-> settled]
            ELSE [result |-> Ok,
                  b |-> [settled EXCEPT
                     !.orders[order_id] =
                         [order EXCEPT
                            !.filled_quantity = qn.quantity,
                            !.average_fill_price =
                                Some(NumDiv(qn.notional, qn.quantity)),
                            !.status = "Filled"],
                     !.filled = @ \cup {order_id}]]
        settle(order, qn, parsed) ==
            IF qn.result # Ok THEN [result |-> qn.result, b |-> b]
            ELSE IF parsed.panic THEN [result |-> Panic, b |-> b]
            ELSE IF order.side = "Buy"
            THEN record(buy(order, qn, parsed.pair), order, qn)
            ELSE record(sell(order, qn, parsed.pair), order, qn)
        fill(order) ==
            settle(order,
                   get_current_quantity_and_notional(b, order.asset_symbol,
                                                     order.amount),
                   from_str(order.asset_symbol))
    IN  fill(b.orders[order_id])

\* fill_order_immediately returning no excess reservation
fill_order_immediately_no_refund(b, order_id) ==
    LET refund(b3, order, qn, pair) ==
            b3
        buy(order, qn, pair) ==
            refund(
              update_buying_power(
                update_balance(
                  update_balance(b, pair.notional_asset, NumNeg(qn.notional)),
                  pair.quantity_asset, qn.quantity),
                pair.quantity_asset, qn.quantity),
              order, qn, pair)
        sell(order, qn, pair) ==
            update_balance(
              update_buying_power(
                update_balance(b, pair.notional_asset, qn.notional),
                pair.notional_asset, qn.notional),
              pair.quantity_asset, NumNeg(qn.quantity))
        record(settled, order, qn) ==
            IF qn.quantity = Zero THEN [result |-> Panic, b |-> settled]
            ELSE [result |-> Ok,
                  b |-> [settled EXCEPT
                     !.orders[order_id] =
                         [order EXCEPT
                            !.filled_quantity = qn.quantity,
                            !.average_fill_price =
                                Some(NumDiv(qn.notional, qn.quantity)),
                            !.status = "Filled"],
                     !.filled = @ \cup {order_id}]]
        settle(order, qn, parsed) ==
            IF qn.result # Ok THEN [result |-> qn.result, b |-> b]
            ELSE IF parsed.panic THEN [result |-> Panic, b |-> b]
            ELSE IF order.side = "Buy"
            THEN record(buy(order, qn, parsed.pair), order, qn)
            ELSE record(sell(order, qn, parsed.pair), order, qn)
        fill(order) ==
            settle(order,
                   get_current_quantity_and_notional(b, order.asset_symbol,
                                                     order.amount),
                   from_str(order.asset_symbol))
    IN  fill(b.orders[order_id])

\* settles the order at the current price of its pair
fill_order_immediately(b, order_id) ==
    LET refund(b3, order, qn, pair) ==
            IF IsSome(order.limit_price)
            THEN update_buying_power(b3, pair.notional_asset,
                     NumSub(NumMul(Unwrap(order.limit_price), qn.quantity),
                            qn.notional))
            ELSE b3
        buy(order, qn, pair) ==
            refund(
              update_buying_power(
                update_balance(
                  update_balance(b, pair.notional_asset, NumNeg(qn.notional)),
                  pair.quantity_asset, qn.quantity),
                pair.quantity_asset, qn.quantity),
              order, qn, pair)
        sell(order, qn, pair) ==
            update_balance(
              update_buying_power(
                update_balance(b, pair.notional_asset, qn.notional),
                pair.notional_asset, qn.notional),
              pair.quantity_asset, NumNeg(qn.quantity))
        record(settled, order, qn) ==
            IF qn.quantity = Zero THEN [result |-> Panic, b |-> settled]
            ELSE [result |-> Ok,
                  b |-> [settled EXCEPT
                     !.orders[order_id] =
                         [order EXCEPT
                            !.filled_quantity = qn.quantity,
                            !.average_fill_price =
                                Some(NumDiv(qn.notional, qn.quantity)),
                            !.status = "Filled"],
                     !.filled = @ \cup {order_id}]]
        settle(order, qn, parsed) ==
            IF qn.result # Ok THEN [result |-> qn.result, b |-> b]
            ELSE IF parsed.panic THEN [result |-> Panic, b |-> b]
            ELSE IF order.side = "Buy"
            THEN record(buy(order, qn, parsed.pair), order, qn)
            ELSE record(sell(order, qn, parsed.pair), order, qn)
        fill(order) ==
            settle(order,
                   get_current_quantity_and_notional(b, order.asset_symbol,
                                                     order.amount),
                   from_str(order.asset_symbol))
    IN  fill(b.orders[order_id])

\* the fill-check without the comparison for equality
maybe_update_order_strict(b, order_id) ==
    LET done(r) == IF r.result = Ok
                   THEN [r EXCEPT !.b.evaluated = @ \cup {order_id}]
                   ELSE r
        compare(order, current) ==
            IF current.result # Ok THEN [result |-> current.result, b |-> b]
            ELSE IF ~IsSome(order.limit_price) THEN [result |-> Panic, b |-> b]
            ELSE IF (order.side = "Buy")
                        = NumLt(current.value, Unwrap(order.limit_price))
            THEN done(fill_order_immediately(b, order_id))
            ELSE done([result |-> Ok, b |-> b])
        check(order, parsed) ==
            IF parsed.panic THEN [result |-> Panic, b |-> b]
            ELSE compare(order, get_notional_per_unit(b, parsed.pair))
        update(order) == check(order, from_str(order.asset_symbol))
    IN  update(b.orders[order_id])

\* the fill-check
maybe_update_order(b, order_id) ==
    LET done(r) == IF r.result = Ok
                   THEN [r EXCEPT !.b.evaluated = @ \cup {order_id}]
                   ELSE r
        compare(order, current) ==
            IF current.result # Ok THEN [result |-> current.result, b |-> b]
            ELSE IF ~IsSome(order.limit_price) THEN [result |-> Panic, b |-> b]
            ELSE IF current.value = Unwrap(order.limit_price)
                    \/ ((order.side = "Buy")
                          = NumLt(current.value, Unwrap(order.limit_price)))
            THEN done(fill_order_immediately(b, order_id))
            ELSE done([result |-> Ok, b |-> b])
        check(order, parsed) ==
            IF parsed.panic THEN [result |-> Panic, b |-> b]
            ELSE compare(order, get_notional_per_unit(b, parsed.pair))
        update(order) == check(order, from_str(order.asset_symbol))
    IN  update(b.orders[order_id])

\* order_id is the value Uuid::new_v4() returned
place_order(b, order_req, order_id) ==
    LET type_ == IF IsSome(order_req.limit_price) THEN "Limit" ELSE "Market"
        order == [order_id |-> order_id,
                  asset_symbol |-> to_string(order_req.asset_pair),
                  amount |-> order_req.amount,
                  limit_price |-> order_req.limit_price,
                  filled_quantity |-> Zero,
                  average_fill_price |-> None,
                  status |-> "New",
                  type_ |-> type_,
                  side |-> order_req.side]
        proceed(queued) ==
            IF queued.result # Ok THEN queued
            ELSE IF IsSome(order_req.limit_price)
            THEN maybe_update_order(queued.b, order_id)
            ELSE fill_order_immediately(queued.b, order_id)
    IN  proceed(queue_order(b, order))

\* the loop of set_notional_per_unit over the order ids, in the order the
\* HashSet yields them; the first error or panic ends it
RECURSIVE update_orders(_, _)
update_orders(b, order_ids) ==
    LET continue(r) ==
            IF r.result # Ok THEN r
            ELSE update_orders(r.b, Tail(order_ids))
    IN  IF order_ids = << >> THEN [result |-> Ok, b |-> b]
        ELSE continue(maybe_update_order(b, Head(order_ids)))

\* set_notional_per_unit storing the price before it checks the pair
set_notional_per_unit_storing_first(b, asset_pair, notional_per_unit, order_ids) ==
    LET store(checked) ==
            IF checked # Ok
            THEN [result |-> checked,
                  b |-> [b EXCEPT !.notional_per_unit =
                       [p \in (DOMAIN b.notional_per_unit) \cup {asset_pair} |->
                           IF p = asset_pair THEN notional_per_unit
                           ELSE b.notional_per_unit[p]]]]
            ELSE update_orders(
                   [b EXCEPT !.notional_per_unit =
                       [p \in (DOMAIN b.notional_per_unit) \cup {asset_pair} |->
                           IF p = asset_pair THEN notional_per_unit
                           ELSE b.notional_per_unit[p]]],
                   order_ids)
    IN  store(check_notional(b, asset_pair))

\* order_ids is the set of keys of the order table as a sequence, in the
\* iteration order of the HashSet built from them
set_notional_per_unit(b, asset_pair, notional_per_unit, order_ids) ==
    LET store(checked) ==
            IF checked # Ok THEN [result |-> checked, b |-> b]
            ELSE update_orders(
                   [b EXCEPT !.notional_per_unit =
                       [p \in (DOMAIN b.notional_per_unit) \cup {asset_pair} |->
                           IF p = asset_pair THEN notional_per_unit
                           ELSE b.notional_per_unit[p]]],
                   order_ids)
    IN  store(check_notional(b, asset_pair))

\* get_orders leaving the filled orders out
get_orders_pending(b) ==
    {b.orders[i] : i \in {j \in DOMAIN b.orders : b.orders[j].status = "New"}}

\* SimulatedBroker::get_orders: the values of the order table
get_orders(b) == {b.orders[i] : i \in DOMAIN b.orders}

get_order(b, order_id) ==
    IF order_id \in DOMAIN b.orders
    THEN [result |-> Ok, order |-> Some(b.orders[order_id])]
    ELSE [result |-> "OrderNotFound", order |-> None]

(***************************************************************************)
(* The state machine: one broker, driven through its public operations.    *)
(***************************************************************************)
VARIABLES
    currency,               \* SimulatedBroker.currency
    notional_assets,        \* SimulatedBroker.notional_assets
    buying_power_balances,  \* SimulatedBroker.buying_power_balances
    orders,                 \* SimulatedBroker.orders
    notional_per_unit,      \* SimulatedBroker.notional_per_unit
    balances,               \* SimulatedBroker.balances
    reserved,               \* history: what queue_order deducted per order
    lastOp,                 \* history: the last call, its inputs and outcome
    priceUpdates,           \* number of set_notional_per_unit calls so far
    panicked,               \* a call panicked: the broker is used no more
    last_processed_time,    \* SimulatedEnvironment.last_processed_time
    crypto_pairs_to_trade,  \* SimulatedEnvironment.crypto_pairs_to_trade
    clock,                  \* what context.clock().now() reads
    ordered_bars,           \* the bars of context.bar_data_source()
    calls,                  \* number of calls on the environment so far
    call                    \* history: the last call on the environment or
                            \* the constructor, its inputs and outcome

vars == << currency, notional_assets, buying_power_balances, orders,
           notional_per_unit, balances, reserved, lastOp, priceUpdates,
           panicked, last_processed_time, crypto_pairs_to_trade, clock,
           ordered_bars, calls, call >>

brokerVars == << currency, notional_assets, buying_power_balances, orders,
                 notional_per_unit, balances >>

envVars == << last_processed_time, crypto_pairs_to_trade, clock, ordered_bars,
              calls, call >>

\* The inputs the operations are driven with: positive prices, amounts and
\* limit prices, pairs of two distinct assets.  GBP/USD is traded with every
\* kind of order at three prices around the limit price; BTC/USD has one
\* price and one kind of order; USD/GBP has a notional asset the broker does
\* not accept, so every call on it fails the same way.
Assets == {USD, GBP, BTC}
GBPUSD == AssetPair(GBP, USD)
BTCUSD == AssetPair(BTC, USD)
USDGBP == AssetPair(USD, GBP)
Pairs == {GBPUSD, BTCUSD, USDGBP}
PriceInputs == {R(1), R(2), R(3)}
PriceUpdateInputs ==
    {<< GBPUSD, p >> : p \in PriceInputs}
    \cup {<< BTCUSD, R(2) >>, << USDGBP, R(2) >>}
AmountInputs == {Quantity(R(2)), Notional(R(3))}
LimitPriceInputs == {None, Some(R(2))}
Sides == {"Buy", "Sell"}
OrderRequests ==
    {OrderRequest(GBPUSD, a, l, s) :
        a \in AmountInputs, l \in LimitPriceInputs, s \in Sides}
    \cup {OrderRequest(BTCUSD, Quantity(R(2)), Some(R(2)), "Buy"),
          OrderRequest(USDGBP, Quantity(R(2)), None, "Buy")}
OrderIds == 1 .. MaxOrders
\* Uuid::new_v4: an id no order has.  The ids carry no meaning and the order
\* in which the table is iterated is drawn separately (Orderings), so the
\* least unused id stands for all of them
new_v4(taken) ==
    {id \in OrderIds \ taken : \A other \in OrderIds \ taken : id <= other}
StartingBalances ==
    {[a \in {USD} |-> R(0)],
     [a \in {USD, GBP} |-> IF a = USD THEN R(9) ELSE R(5)]}

\* the sequences that list each element of S once
Orderings(S) ==
    {f \in [1 .. Cardinality(S) -> S] : \A i, j \in DOMAIN f : f[i] = f[j] => i = j}

\* the broker value the variables hold, with empty per-call histories
Broker ==
    [currency |-> currency,
     notional_assets |-> notional_assets,
     buying_power_balances |-> buying_power_balances,
     orders |-> orders,
     notional_per_unit |-> notional_per_unit,
     balances |-> balances,
     reserved |-> reserved,
     filled |-> {},
     evaluated |-> {}]

\* the variables take the fields of the broker a call left behind
Becomes(b) ==
    /\ currency' = b.currency
    /\ notional_assets' = b.notional_assets
    /\ buying_power_balances' = b.buying_power_balances
    /\ orders' = b.orders
    /\ notional_per_unit' = b.notional_per_unit
    /\ balances' = b.balances
    /\ reserved' = b.reserved

\* new leaving the buying power empty
new_without_buying_power(currency_, notional_assets_, starting_balances) ==
    IF currency_ \notin notional_assets_
    THEN [result |-> "MissingCurrencyNotionalAsset"]
    ELSE [result |-> Ok,
          b |-> [currency |-> currency_,
                 notional_assets |-> notional_assets_,
                 orders |-> << >>,
                 notional_per_unit |-> << >>,
                 buying_power_balances |-> << >>,
                 balances |-> starting_balances,
                 reserved |-> << >>,
                 filled |-> {},
                 evaluated |-> {}]]

\* SimulatedBroker::new: the currency must be a notional asset; buying power
\* starts as a copy of the starting balances, no orders, no prices
new(currency_, notional_assets_, starting_balances) ==
    IF currency_ \notin notional_assets_
    THEN [result |-> "MissingCurrencyNotionalAsset"]
    ELSE [result |-> Ok,
          b |-> [currency |-> currency_,
                 notional_assets |-> notional_assets_,
                 orders |-> << >>,
                 notional_per_unit |-> << >>,
                 buying_power_balances |-> starting_balances,
                 balances |-> starting_balances,
                 reserved |-> << >>,
                 filled |-> {},
                 evaluated |-> {}]]

\* the variables start as the fields of a newly built broker
StartsAs(b) ==
    /\ currency = b.currency
    /\ notional_assets = b.notional_assets
    /\ buying_power_balances = b.buying_power_balances
    /\ orders = b.orders
    /\ notional_per_unit = b.notional_per_unit
    /\ balances = b.balances
    /\ reserved = b.reserved

NoCall ==
    [op |-> "new", asset_pair |-> None, amount |-> None, limit_price |-> None,
     side |-> "", price |-> None, order_id |-> 0, result |-> Ok,
     filled |-> {}, evaluated |-> {}]

\* the broker is driven directly: no environment is built around it
NoEnvironment ==
    /\ last_processed_time = None
    /\ crypto_pairs_to_trade = {}
    /\ clock = 0
    /\ ordered_bars = << >>
    /\ calls = 0
    /\ call = [op |-> "none"]

Init ==
    \E starting_balances \in StartingBalances :
        /\ StartsAs(new(USD, {USD}, starting_balances).b)
        /\ lastOp = NoCall
        /\ priceUpdates = 0
        /\ panicked = FALSE
        /\ NoEnvironment

PlaceOrder ==
    /\ ~panicked
    /\ Cardinality(DOMAIN orders) < MaxOrders
    /\ \E order_req \in OrderRequests, order_id \in new_v4(DOMAIN orders) :
          LET returns(r) ==
              /\ Becomes(r.b)
              /\ lastOp' = [op |-> "place_order",
                            asset_pair |-> Some(order_req.asset_pair),
                            amount |-> Some(order_req.amount),
                            limit_price |-> order_req.limit_price,
                            side |-> order_req.side,
                            price |-> None,
                            order_id |-> order_id,
                            result |-> r.result,
                            filled |-> r.b.filled,
                            evaluated |-> r.b.evaluated]
              /\ panicked' = (r.result = Panic)
              /\ UNCHANGED << priceUpdates, envVars >>
          IN  returns(place_order(Broker, order_req, order_id))

SetNotionalPerUnit ==
    /\ ~panicked
    /\ priceUpdates < MaxPriceUpdates
    /\ \E update \in PriceUpdateInputs,
          order_ids \in Orderings(DOMAIN orders) :
          LET asset_pair == update[1]
              price == update[2]
              returns(r) ==
              /\ Becomes(r.b)
              /\ lastOp' = [op |-> "set_notional_per_unit",
                            asset_pair |-> Some(asset_pair),
                            amount |-> None,
                            limit_price |-> None,
                            side |-> "",
                            price |-> Some(price),
                            order_id |-> 0,
                            result |-> r.result,
                            filled |-> r.b.filled,
                            evaluated |-> r.b.evaluated]
              /\ panicked' = (r.result = Panic)
              /\ priceUpdates' = priceUpdates + 1
              /\ UNCHANGED envVars
          IN  returns(set_notional_per_unit(Broker, asset_pair, price,
                                            order_ids))

Next == PlaceOrder \/ SetNotionalPerUnit

Spec == Init /\ [][Next]_vars

(***************************************************************************)
(* The constructor on its own: its arguments are drawn first, then         *)
(* SimulatedBroker::new is applied to them.                                *)
(***************************************************************************)
NewNotionalAssets == SUBSET {USD, GBP}
NewStartingBalances ==
    UNION {[S -> {R(-1), R(9)}] : S \in SUBSET {USD, GBP}}

\* no broker has been built
NoBroker ==
    /\ currency = << >>
    /\ notional_assets = {}
    /\ buying_power_balances = << >>
    /\ orders = << >>
    /\ notional_per_unit = << >>
    /\ balances = << >>
    /\ reserved = << >>

NewInit ==
    \E currency_ \in Assets, notional_assets_ \in NewNotionalAssets,
       starting_balances \in NewStartingBalances :
        /\ NoBroker
        /\ lastOp = NoCall
        /\ priceUpdates = 0
        /\ panicked = FALSE
        /\ last_processed_time = None
        /\ crypto_pairs_to_trade = {}
        /\ clock = 0
        /\ ordered_bars = << >>
        /\ calls = 0
        /\ call = [op |-> "arguments",
                   currency |-> currency_,
                   notional_assets |-> notional_assets_,
                   starting_balances |-> starting_balances,
                   result |-> ""]

Construct ==
    /\ call.op = "arguments"
    /\ LET returns(r) ==
           /\ call' = [call EXCEPT !.op = "new", !.result = r.result]
           /\ IF r.result = Ok THEN Becomes(r.b)
              ELSE UNCHANGED << brokerVars, reserved >>
       IN  returns(new(call.currency, call.notional_assets,
                       call.starting_balances))
    /\ UNCHANGED << lastOp, priceUpdates, panicked, last_processed_time,
                    crypto_pairs_to_trade, clock, ordered_bars, calls >>

NewNext == Construct

NewSpec == NewInit /\ [][NewNext]_vars

(***************************************************************************)
(* The conversions of AssetPair on their own: a string or a pair is drawn  *)
(* first, then parsed and printed back, or printed and parsed back.        *)
(***************************************************************************)
Chars == {"A", "B", "/"}
StringsUpTo(n) == UNION {[1 .. k -> Chars] : k \in 0 .. n}
StringInputs == StringsUpTo(MaxLen)
PairInputs ==
    {AssetPair(q, n) : q \in StringsUpTo(MaxNameLen), n \in StringsUpTo(MaxNameLen)}
        \cup Pairs

PairInit ==
    /\ NoBroker
    /\ lastOp = NoCall
    /\ priceUpdates = 0
    /\ panicked = FALSE
    /\ last_processed_time = None
    /\ crypto_pairs_to_trade = {}
    /\ clock = 0
    /\ ordered_bars = << >>
    /\ calls = 0
    /\ \/ \E s \in StringInputs : call = [op |-> "string", s |-> s]
       \/ \E asset_pair \in PairInputs :
             call = [op |-> "pair", asset_pair |-> asset_pair]

\* s.parse::<AssetPair>() and then to_string() on what it returned
ParseThenPrint ==
    /\ call.op = "string"
    /\ LET returns(r) ==
           call' = [op |-> "from_str",
                    s |-> call.s,
                    panic |-> r.panic,
                    asset_pair |-> IF r.panic THEN None ELSE Some(r.pair),
                    printed |-> IF r.panic THEN None
                                ELSE Some(to_string(r.pair))]
       IN  returns(from_str(call.s))
    /\ UNCHANGED << brokerVars, reserved, lastOp, priceUpdates, panicked,
                    last_processed_time, crypto_pairs_to_trade, clock,
                    ordered_bars, calls >>

\* asset_pair.to_string() and then parse::<AssetPair>() on what it returned
PrintThenParse ==
    /\ call.op = "pair"
    /\ LET returns(printed, r) ==
           call' = [op |-> "to_string",
                    asset_pair |-> call.asset_pair,
                    s |-> printed,
                    panic |-> r.panic,
                    parsed |-> IF r.panic THEN None ELSE Some(r.pair)]
           parse(printed) == returns(printed, from_str(printed))
       IN  parse(to_string(call.asset_pair))
    /\ UNCHANGED << brokerVars, reserved, lastOp, priceUpdates, panicked,
                    last_processed_time, crypto_pairs_to_trade, clock,
                    ordered_bars, calls >>

PairNext == ParseThenPrint \/ PrintThenParse

PairSpec == PairInit /\ [][PairNext]_vars

(***************************************************************************)
(* SimulatedEnvironment (simulated/environment.rs) and the SimulatedClient *)
(* it wraps (simulated/client.rs).  Time is counted in units of 30         *)
(* seconds.  An environment is a record of the client's broker, the clock  *)
(* reading and the bars of the data source, last_processed_time and the    *)
(* tracked pairs.                                                          *)
(***************************************************************************)
refresh_duration == 1
bar_duration == 2
minute_bar_duration == 2

NotInitialized == "NotInitialized"
AlreadyInitialized == "AlreadyInitialized"
OrderNotFound == "OrderNotFound"

Min(x, y) == IF x <= y THEN x ELSE y

\* tests::create_bar
create_bar(low, high, date_time) ==
    [low |-> R(low), high |-> R(high), open |-> R(low), close |-> R(high),
     date_time |-> date_time]

\* BarDataSource::get_bar as the tests' data source answers it: the latest
\* bar at or before date_time, for whatever pair and bar duration
RECURSIVE get_bar(_, _, _, _)
get_bar(bars, crypto_pair, date_time, duration) ==
    IF bars = << >> THEN None
    ELSE IF bars[Len(bars)].date_time <= date_time
    THEN Some(bars[Len(bars)])
    ELSE get_bar(SubSeq(bars, 1, Len(bars) - 1), crypto_pair, date_time,
                 duration)

\* one pass of the loop of update over the tracked pairs, in the order the
\* HashSet yields them; the first error or panic ends it
RECURSIVE update_pairs(_, _, _, _, _)
update_pairs(b, pairs, bars, now, order_ids) ==
    LET continue(r) ==
            IF r.result # Ok THEN r
            ELSE update_pairs(r.b, Tail(pairs), bars, now, order_ids)
        push(bar) ==
            IF ~IsSome(bar)
            THEN update_pairs(b, Tail(pairs), bars, now, order_ids)
            ELSE continue(set_notional_per_unit(
                     b, Head(pairs),
                     NumDiv(NumAdd(Unwrap(bar).low, Unwrap(bar).high), R(2)),
                     order_ids))
    IN  IF pairs = << >> THEN [result |-> Ok, b |-> b]
        ELSE push(get_bar(bars, Head(pairs), now, bar_duration))

\* the while loop of update, from the stepped time t
RECURSIVE update_loop(_, _, _, _, _, _)
update_loop(b, t, pairs, bars, now, order_ids) ==
    LET step(r) ==
            IF r.result # Ok \/ t = now THEN r
            ELSE update_loop(r.b, Min(t + refresh_duration, now), pairs, bars,
                             now, order_ids)
    IN  IF t > now THEN [result |-> Ok, b |-> b]
        ELSE step(update_pairs(b, pairs, bars, now, order_ids))

\* update running on an environment that was never initialized
update_without_check(env, pairs, order_ids) ==
    LET finish(r) ==
            IF r.result # Ok
            THEN [result |-> r.result, env |-> [env EXCEPT !.client = r.b]]
            ELSE [result |-> Ok,
                  env |-> [env EXCEPT !.client = r.b,
                                      !.last_processed_time = Some(env.now)]]
    IN  finish(update_loop(env.client,
                           IF IsSome(env.last_processed_time)
                           THEN Unwrap(env.last_processed_time) ELSE env.now,
                           pairs, env.ordered_bars, env.now, order_ids))

\* SimulatedEnvironment::update.  pairs lists the tracked pairs and
\* order_ids the order ids in the iteration order of their HashSets; the
\* order table does not change during an update, and the order of the ids
\* shows only in a call that panics, which is the last one.
update(env, pairs, order_ids) ==
    LET finish(r) ==
            IF r.result # Ok
            THEN [result |-> r.result, env |-> [env EXCEPT !.client = r.b]]
            ELSE [result |-> Ok,
                  env |-> [env EXCEPT !.client = r.b,
                                      !.last_processed_time = Some(env.now)]]
    IN  IF ~IsSome(env.last_processed_time)
        THEN [result |-> NotInitialized, env |-> env]
        ELSE finish(update_loop(env.client, Unwrap(env.last_processed_time),
                                pairs, env.ordered_bars, env.now, order_ids))

\* init accepting a second call
init_again(env, now, pairs, order_ids) ==
    update([env EXCEPT !.last_processed_time = Some(env.now), !.now = now],
           pairs, order_ids)

\* SimulatedEnvironment::init.  It reads the clock twice: env.now is the
\* reading it stores in last_processed_time, and now is the reading that
\* update takes afterwards; the environment it returns holds the later one.
init(env, now, pairs, order_ids) ==
    IF IsSome(env.last_processed_time)
    THEN [result |-> AlreadyInitialized, env |-> env]
    ELSE update([env EXCEPT !.last_processed_time = Some(env.now), !.now = now],
                pairs, order_ids)

\* the assets SimulatedClient::get_account reports a position for: the
\* assets other than the currency that have a balance other than 0
get_purchased_asset_symbols(b) ==
    {a \in DOMAIN b.balances : a # b.currency /\ b.balances[a] # Zero}

\* get_open_position reporting the quantity as the market value
get_open_position_unvalued(b, asset_symbol) ==
    LET position(npu) ==
            IF npu.result # Ok THEN [result |-> npu.result]
            ELSE [result |-> Ok,
                  asset_symbol |-> asset_symbol,
                  quantity |-> get_balance(b, asset_symbol),
                  average_entry_price |-> None,
                  market_value |->
                      Some(get_balance(b, asset_symbol))]
    IN  position(get_notional_per_unit(b, AssetPair(asset_symbol, b.currency)))

\* SimulatedClient::get_open_position
get_open_position(b, asset_symbol) ==
    LET position(npu) ==
            IF npu.result # Ok THEN [result |-> npu.result]
            ELSE [result |-> Ok,
                  asset_symbol |-> asset_symbol,
                  quantity |-> get_balance(b, asset_symbol),
                  average_entry_price |-> None,
                  market_value |->
                      Some(NumMul(get_balance(b, asset_symbol), npu.value))]
    IN  position(get_notional_per_unit(b, AssetPair(asset_symbol, b.currency)))

\* SimulatedClient::get_account
get_account(b) ==
    IF \E a \in get_purchased_asset_symbols(b) :
           get_open_position(b, a).result # Ok
    THEN [result |-> NoNotionalPerUnit, account |-> None]
    ELSE [result |-> Ok,
          account |-> Some(
             [open_positions |-> [a \in get_purchased_asset_symbols(b) |->
                                     get_open_position(b, a)],
              cash |-> get_balance(b, b.currency),
              buying_power |-> get_buying_power(b, b.currency),
              currency |-> b.currency])]

\* impl Client for SimulatedEnvironment: update, then the client's call
Environment_place_order(env, req, order_id, pairs, order_ids) ==
    LET placed(env1, r) ==
            [result |-> r.result,
             env |-> [env1 EXCEPT !.client = r.b],
             value |-> IF r.result = Ok THEN Some(order_id) ELSE None]
        delegate(u) ==
            IF u.result # Ok
            THEN [result |-> u.result, env |-> u.env, value |-> None]
            ELSE placed(u.env, place_order(u.env.client, req, order_id))
    IN  delegate(update(env, pairs, order_ids))

Environment_get_orders(env, pairs, order_ids) ==
    LET delegate(u) ==
            IF u.result # Ok
            THEN [result |-> u.result, env |-> u.env, value |-> None]
            ELSE [result |-> Ok, env |-> u.env,
                  value |-> Some(get_orders(u.env.client))]
    IN  delegate(update(env, pairs, order_ids))

\* get_order answering from the broker as it is, without the update
Environment_get_order_stale(env, order_id, pairs, order_ids) ==
    LET found(env1, r) ==
            [result |-> r.result, env |-> env1, value |-> r.order]
    IN  IF ~IsSome(env.last_processed_time)
        THEN [result |-> NotInitialized, env |-> env, value |-> None]
        ELSE found(env, get_order(env.client, order_id))

Environment_get_order(env, order_id, pairs, order_ids) ==
    LET found(env1, r) ==
            [result |-> r.result, env |-> env1, value |-> r.order]
        delegate(u) ==
            IF u.result # Ok
            THEN [result |-> u.result, env |-> u.env, value |-> None]
            ELSE found(u.env, get_order(u.env.client, order_id))
    IN  delegate(update(env, pairs, order_ids))

Environment_get_account(env, pairs, order_ids) ==
    LET reported(env1, r) ==
            [result |-> r.result, env |-> env1, value |-> r.account]
        delegate(u) ==
            IF u.result # Ok
            THEN [result |-> u.result, env |-> u.env, value |-> None]
            ELSE reported(u.env, get_account(u.env.client))
    IN  delegate(update(env, pairs, order_ids))

\* get_latest_minute_bar returning the bar at now as it is
get_latest_minute_bar_leaking(env, crypto_pair) ==
    [result |-> Ok,
     value |-> get_bar(env.ordered_bars, crypto_pair, env.now,
                       minute_bar_duration)]

\* impl Market for SimulatedEnvironment
get_latest_minute_bar(env, crypto_pair) ==
    LET closed(bar) ==
            IF ~IsSome(bar) THEN [result |-> Ok, value |-> None]
            ELSE IF Unwrap(bar).date_time + minute_bar_duration > env.now
            THEN [result |-> Ok,
                  value |-> get_bar(env.ordered_bars, crypto_pair,
                                    env.now - minute_bar_duration,
                                    minute_bar_duration)]
            ELSE [result |-> Ok, value |-> bar]
    IN  closed(get_bar(env.ordered_bars, crypto_pair, env.now,
                       minute_bar_duration))

(***************************************************************************)
(* The environment as a state machine: one environment around one broker,  *)
(* a clock that the caller advances, and the calls of its public traits.   *)
(***************************************************************************)
\* the data sources: no bar at all; a bar with mid-price 3 followed two
\* ticks later by one with mid-price 3/2; a bar with mid-price 1 that starts
\* after the clock does, followed two ticks later by one with mid-price 3;
\* a mid-price of 3 that dips to 1 for one tick
DataSources ==
    {<< >>,
     << create_bar(2, 4, 0), create_bar(1, 2, 2) >>,
     << create_bar(1, 1, 1), create_bar(2, 4, 3) >>,
     << create_bar(2, 4, 0), create_bar(1, 1, 1), create_bar(2, 4, 2) >>}
TrackedPairs == {{}, {GBPUSD}, {GBPUSD, USDGBP}}
EnvOrderRequests ==
    {OrderRequest(GBPUSD, Quantity(R(2)), Some(R(2)), "Buy"),
     OrderRequest(GBPUSD, Quantity(R(2)), Some(R(2)), "Sell"),
     OrderRequest(GBPUSD, Quantity(R(2)), None, "Buy")}

\* the environment value the variables hold
Env ==
    [client |-> Broker,
     last_processed_time |-> last_processed_time,
     crypto_pairs_to_trade |-> crypto_pairs_to_trade,
     now |-> clock,
     ordered_bars |-> ordered_bars]

\* the variables take the fields of the environment a call left behind;
\* the clock shows the last reading the call took
EnvBecomes(env) ==
    /\ Becomes(env.client)
    /\ last_processed_time' = env.last_processed_time
    /\ clock' = env.now
    /\ UNCHANGED << crypto_pairs_to_trade, ordered_bars, lastOp,
                    priceUpdates >>

\* the record of a call: its name, argument, outcome and returned value,
\* the last clock reading it saw, and the orders it settled and evaluated
Called(op, arg, r) ==
    /\ call' = [op |-> op, arg |-> arg, result |-> r.result,
                value |-> IF "value" \in DOMAIN r THEN r.value ELSE None,
                now |-> r.env.now,
                filled |-> r.env.client.filled,
                evaluated |-> r.env.client.evaluated]
    /\ calls' = calls + 1
    /\ panicked' = (r.result = Panic)

\* SimulatedEnvironmentBuilder::build around a newly built broker
EnvInit ==
    \E bars \in DataSources, tracked \in TrackedPairs :
        /\ StartsAs(new(USD, {USD},
                        [a \in {USD, GBP} |-> IF a = USD THEN R(9) ELSE R(5)]).b)
        /\ lastOp = NoCall
        /\ priceUpdates = 0
        /\ panicked = FALSE
        /\ last_processed_time = None
        /\ crypto_pairs_to_trade = tracked
        /\ clock = 0
        /\ ordered_bars = bars
        /\ calls = 0
        /\ call = [op |-> "build", arg |-> None, result |-> Ok,
                   value |-> None, now |-> 0, filled |-> {}, evaluated |-> {}]

\* the caller advances the clock
ClockAdvances ==
    /\ ~panicked
    /\ clock < MaxTime
    /\ clock' = clock + 1
    /\ UNCHANGED << brokerVars, reserved, lastOp, priceUpdates, panicked,
                    last_processed_time, crypto_pairs_to_trade, ordered_bars,
                    calls, call >>

\* a call of init: the clock reads its present value when init stores
\* last_processed_time and one of readings when update asks it again
InitCall(readings) ==
    /\ ~panicked
    /\ calls < MaxCalls
    /\ \E now \in readings,
          pairs \in Orderings(crypto_pairs_to_trade),
          order_ids \in Orderings(DOMAIN orders) :
          LET returns(r) ==
              /\ EnvBecomes(r.env)
              /\ Called("init", None, r)
          IN  returns(init(Env, now, pairs, order_ids))

\* init while the caller may advance the clock: the second reading is the
\* first or a later one
EnvironmentInit == InitCall(clock .. MaxTime)

EnvironmentUpdate ==
    /\ ~panicked
    /\ calls < MaxCalls
    /\ \E pairs \in Orderings(crypto_pairs_to_trade),
          order_ids \in Orderings(DOMAIN orders) :
          LET returns(r) ==
              /\ EnvBecomes(r.env)
              /\ Called("update", None, r)
          IN  returns(update(Env, pairs, order_ids))

EnvironmentPlaceOrder ==
    /\ ~panicked
    /\ calls < MaxCalls
    /\ Cardinality(DOMAIN orders) < MaxOrders
    /\ \E req \in EnvOrderRequests, order_id \in new_v4(DOMAIN orders),
          pairs \in Orderings(crypto_pairs_to_trade),
          order_ids \in Orderings(DOMAIN orders) :
          LET returns(r) ==
              /\ EnvBecomes(r.env)
              /\ Called("place_order", Some(req), r)
          IN  returns(Environment_place_order(Env, req, order_id, pairs,
                                              order_ids))

EnvironmentGetOrders ==
    /\ ~panicked
    /\ calls < MaxCalls
    /\ \E pairs \in Orderings(crypto_pairs_to_trade),
          order_ids \in Orderings(DOMAIN orders) :
          LET returns(r) ==
              /\ EnvBecomes(r.env)
              /\ Called("get_orders", None, r)
          IN  returns(Environment_get_orders(Env, pairs, order_ids))

EnvironmentGetOrder ==
    /\ ~panicked
    /\ calls < MaxCalls
    /\ \E order_id \in OrderIds,
          pairs \in Orderings(crypto_pairs_to_trade),
          order_ids \in Orderings(DOMAIN orders) :
          LET returns(r) ==
              /\ EnvBecomes(r.env)
              /\ Called("get_order", Some(order_id), r)
          IN  returns(Environment_get_order(Env, order_id, pairs, order_ids))

EnvironmentGetAccount ==
    /\ ~panicked
    /\ calls < MaxCalls
    /\ \E pairs \in Orderings(crypto_pairs_to_trade),
          order_ids \in Orderings(DOMAIN orders) :
          LET returns(r) ==
              /\ EnvBecomes(r.env)
              /\ Called("get_account", None, r)
          IN  returns(Environment_get_account(Env, pairs, order_ids))

GetLatestMinuteBar ==
    /\ ~panicked
    /\ calls < MaxCalls
    /\ \E crypto_pair \in {GBPUSD, BTCUSD} :
          LET returns(r) ==
              /\ call' = [op |-> "get_latest_minute_bar",
                          arg |-> Some(crypto_pair), result |-> r.result,
                          value |-> r.value, now |-> clock,
                          filled |-> {}, evaluated |-> {}]
              /\ calls' = calls + 1
              /\ UNCHANGED << brokerVars, reserved, lastOp, priceUpdates,
                              panicked, last_processed_time,
                              crypto_pairs_to_trade, clock, ordered_bars >>
          IN  returns(get_latest_minute_bar(Env, crypto_pair))

EnvNext ==
    \/ ClockAdvances
    \/ EnvironmentInit
    \/ EnvironmentUpdate
    \/ EnvironmentPlaceOrder
    \/ EnvironmentGetOrders
    \/ EnvironmentGetOrder
    \/ EnvironmentGetAccount
    \/ GetLatestMinuteBar

EnvSpec == EnvInit /\ [][EnvNext]_vars

(***************************************************************************)
(* The environment under a clock that may return any reading, also an      *)
(* earlier one than before (Clock is a trait of the context; the           *)
(* environment reads it anew in every call): init and update only.         *)
(***************************************************************************)
ClockReads ==
    /\ ~panicked
    /\ \E now \in 0 .. MaxTime :
          /\ now # clock
          /\ clock' = now
    /\ UNCHANGED << brokerVars, reserved, lastOp, priceUpdates, panicked,
                    last_processed_time, crypto_pairs_to_trade, ordered_bars,
                    calls, call >>

\* init under such a clock: the second reading is any reading
ClockInit == InitCall(0 .. MaxTime)

ClockNext == ClockReads \/ ClockInit \/ EnvironmentUpdate

ClockSpec == EnvInit /\ [][ClockNext]_vars

(***************************************************************************)
(* The loop of SimulatedEnvironment::update step by step, for an           *)
(* initialized environment that tracks no pair: call holds the position in *)
(* the code, the refresh duration the environment was built with and the   *)
(* local last_processed_time (t).  set_refresh_duration stores whatever    *)
(* duration it is given; the durations drawn are zero, the default one     *)
(* and a longer one.                                                       *)
(***************************************************************************)
RefreshDurations == 0 .. 2

LoopInit ==
    \E t0 \in 0 .. MaxTime, now \in 0 .. MaxTime,
       refresh \in RefreshDurations :
        /\ NoBroker
        /\ lastOp = NoCall
        /\ priceUpdates = 0
        /\ panicked = FALSE
        /\ last_processed_time = Some(t0)
        /\ crypto_pairs_to_trade = {}
        /\ clock = now
        /\ ordered_bars = << >>
        /\ calls = 0
        /\ call = [op |-> "update", pc |-> "enter",
                   refresh_duration |-> refresh, t |-> t0,
                   last_pass |-> None]

LoopFrame ==
    UNCHANGED << brokerVars, reserved, lastOp, priceUpdates,
                 crypto_pairs_to_trade, clock, ordered_bars, calls >>

\* the is_none check passes and the local last_processed_time is set
LoopEnter ==
    /\ call.pc = "enter"
    /\ call' = [call EXCEPT !.pc = "while",
                            !.t = Unwrap(last_processed_time)]
    /\ UNCHANGED << last_processed_time, panicked >>
    /\ LoopFrame

\* while last_processed_time <= now
LoopWhile ==
    /\ call.pc = "while"
    /\ call' = [call EXCEPT !.pc = IF call.t <= clock THEN "for" ELSE "store"]
    /\ UNCHANGED << last_processed_time, panicked >>
    /\ LoopFrame

\* the pass over the tracked pairs (there are none)
LoopFor ==
    /\ call.pc = "for"
    /\ call' = [call EXCEPT !.pc = "if", !.last_pass = Some(call.t)]
    /\ UNCHANGED << last_processed_time, panicked >>
    /\ LoopFrame

\* break at now, otherwise step to min(t + refresh_duration, now)
LoopIf ==
    /\ call.pc = "if"
    /\ call' = IF call.t = clock THEN [call EXCEPT !.pc = "store"]
               ELSE [call EXCEPT !.pc = "while",
                                 !.t = Min(call.t + call.refresh_duration,
                                           clock)]
    /\ UNCHANGED << last_processed_time, panicked >>
    /\ LoopFrame

\* self.last_processed_time = Some(now); Ok(())
LoopStore ==
    /\ call.pc = "store"
    /\ call' = [call EXCEPT !.pc = "returned"]
    /\ last_processed_time' = Some(clock)
    /\ UNCHANGED panicked
    /\ LoopFrame

LoopNext == LoopEnter \/ LoopWhile \/ LoopFor \/ LoopIf \/ LoopStore

\* the call runs on one thread and takes its next step as long as it has one
LoopSpec == LoopInit /\ [][LoopNext]_vars /\ WF_vars(LoopNext)

(***************************************************************************)
(* Vocabulary of the properties, written from the specification.           *)
(***************************************************************************)
\* the balance and the buying power an account reports for an asset
Balance(a) == get_asset_value(balances, a)
BuyingPower(a) == get_asset_value(buying_power_balances, a)

PlaceOrderErrors ==
    {NoNotionalPerUnit, InvalidNotionalAsset, InsufficientBuyingPower}

\* the pair an order was placed on
PairOf(order) == from_str(order.asset_symbol).pair

\* the quantity and the notional of an amount at price p
QuantityAt(amount, p) ==
    IF amount.kind = "Quantity" THEN amount.value ELSE NumDiv(amount.value, p)
NotionalAt(amount, p) ==
    IF amount.kind = "Quantity" THEN NumMul(amount.value, p) ELSE amount.value

\* the reservation a request asks for at price p, and the asset it is taken of
ReserveAsset(pair, side) ==
    IF side = "Buy" THEN pair.notional_asset ELSE pair.quantity_asset
ReserveAmount(amount, limit_price, side, p) ==
    IF side = "Sell" THEN QuantityAt(amount, p)
    ELSE IF IsSome(limit_price)
    THEN NumMul(Unwrap(limit_price), QuantityAt(amount, p))
    ELSE NotionalAt(amount, p)

\* the fill condition of a limit order at the current price
LimitSatisfied(current, limit, side) ==
    \/ current = limit
    \/ (side = "Buy" /\ NumLt(current, limit))
    \/ (side = "Sell" /\ NumLt(limit, current))

\* the last call was a place_order / set_notional_per_unit (as seen from
\* the state after it)
PlacedOk == lastOp.op = "place_order" /\ lastOp.result = Ok
PlaceFailed == lastOp.op = "place_order" /\ lastOp.result \in PlaceOrderErrors
PriceSet == lastOp.op = "set_notional_per_unit"

NewOrders == {i \in DOMAIN orders : orders[i].status = "New"}
FilledOrders == {i \in DOMAIN orders : orders[i].status = "Filled"}

(***************************************************************************)
(* C1.  A place_order call that fails (no price for the pair, invalid      *)
(* notional asset, insufficient buying power) leaves the broker exactly    *)
(* as it was: balances, buying power, the price table and the order table  *)
(* are unchanged.                                                          *)
(***************************************************************************)
C1_FailedPlaceOrderChangesNothing ==
    [][PlaceFailed' => UNCHANGED brokerVars]_vars

\* a place_order was rejected for lack of buying power while another order
\* was pending and the account held funds
C1_Witness ==
    /\ PlaceFailed
    /\ lastOp.result = InsufficientBuyingPower
    /\ NewOrders # {}
    /\ NumLt(Zero, BuyingPower(USD))

(***************************************************************************)
(* C2.  Starting from non-negative buying power, with positive prices and  *)
(* amounts, the buying power of every asset is >= 0 after every            *)
(* successful place_order; and a place_order whose reservation exceeds the *)
(* buying power of the asset it reserves is rejected with                  *)
(* InsufficientBuyingPower and changes nothing.                            *)
(***************************************************************************)
C2_ReservationExceeds ==
    LET pair == Unwrap(lastOp'.asset_pair)
        amount == Unwrap(lastOp'.amount)
        p == notional_per_unit[pair]
    IN  /\ lastOp'.op = "place_order"
        /\ pair.notional_asset \in notional_assets
        /\ pair \in DOMAIN notional_per_unit
        /\ NumLt(BuyingPower(ReserveAsset(pair, lastOp'.side)),
                 ReserveAmount(amount, lastOp'.limit_price, lastOp'.side, p))

\* C2: buying power is never negative after a successful place_order, and an
\* order whose reservation exceeds it is rejected without effect
C2_BuyingPowerNeverNegative ==
    [][/\ PlacedOk' =>
            \A a \in Assets \cup DOMAIN buying_power_balances' :
                NumLe(Zero, get_asset_value(buying_power_balances', a))
       /\ C2_ReservationExceeds =>
            /\ lastOp'.result = InsufficientBuyingPower
            /\ UNCHANGED brokerVars]_vars

\* a successful place_order used up the whole buying power of the asset it
\* reserved
C2_Witness ==
    /\ PlacedOk
    /\ orders[lastOp.order_id].status = "New"
    /\ BuyingPower(reserved[lastOp.order_id].asset) = Zero
    /\ NumLt(Zero, reserved[lastOp.order_id].amount)

(***************************************************************************)
(* C3.  For every asset a, buying_power[a] = balances[a] minus the sum of  *)
(* the reservations of the orders still New that reserved a (so that with  *)
(* no New order buying power equals balance).                              *)
(***************************************************************************)
RECURSIVE C3_ReservedSum(_, _)
C3_ReservedSum(ids, a) ==
    IF ids = {} THEN Zero
    ELSE LET i == CHOOSE i \in ids : TRUE
         IN  NumAdd(IF reserved[i].asset = a THEN reserved[i].amount ELSE Zero,
                    C3_ReservedSum(ids \ {i}, a))

\* C3: buying power is the balance minus the reservations of the New orders
C3_BuyingPowerIsBalanceMinusReservations ==
    ~panicked =>
        \A a \in Assets :
            BuyingPower(a) = NumSub(Balance(a), C3_ReservedSum(NewOrders, a))

(***************************************************************************)
(* C4.  An order's status only moves from New to Filled; once Filled its   *)
(* filled_quantity and average_fill_price never change; its id, pair,      *)
(* amount, side, limit_price and type never change.                        *)
(***************************************************************************)
C4_OrdersOnlyMoveNewToFilled ==
    [][\A i \in DOMAIN orders :
          /\ i \in DOMAIN orders'
          /\ orders'[i].order_id = orders[i].order_id
          /\ orders'[i].asset_symbol = orders[i].asset_symbol
          /\ orders'[i].amount = orders[i].amount
          /\ orders'[i].side = orders[i].side
          /\ orders'[i].limit_price = orders[i].limit_price
          /\ orders'[i].type_ = orders[i].type_
          /\ \/ orders'[i].status = orders[i].status
             \/ (orders[i].status = "New" /\ orders'[i].status = "Filled")
          /\ orders[i].status = "Filled" =>
                /\ orders'[i].filled_quantity = orders[i].filled_quantity
                /\ orders'[i].average_fill_price = orders[i].average_fill_price
      ]_vars

(***************************************************************************)
(* C5.  Each order is settled at most once: set_notional_per_unit skips    *)
(* Filled orders, so a price update settles no order that was already      *)
(* Filled, and when no order is New it changes nothing but the price       *)
(* table.                                                                  *)
(***************************************************************************)
C5_FilledOrdersAreSkipped ==
    [][PriceSet' =>
          /\ lastOp'.filled \cap FilledOrders = {}
          /\ NewOrders = {} =>
                UNCHANGED << balances, buying_power_balances, orders >>]_vars

(***************************************************************************)
(* C6.  Every fill moves balances[quantity_asset] by exactly the order's   *)
(* filled_quantity (up on a buy, down on a sell) and                       *)
(* balances[notional_asset] the other way by exactly filled_quantity *     *)
(* average_fill_price, and moves no other balance: over a call, every      *)
(* balance changes by the sum of these movements over the orders the call  *)
(* filled.                                                                 *)
(***************************************************************************)
C6_FillEffect(order, a) ==
    LET pair == PairOf(order)
        q == order.filled_quantity
        n == NumMul(order.filled_quantity, Unwrap(order.average_fill_price))
    IN  IF a = pair.quantity_asset
        THEN (IF order.side = "Buy" THEN q ELSE NumNeg(q))
        ELSE IF a = pair.notional_asset
        THEN (IF order.side = "Buy" THEN NumNeg(n) ELSE n)
        ELSE Zero

RECURSIVE C6_FillSum(_, _, _)
C6_FillSum(ids, ords, a) ==
    IF ids = {} THEN Zero
    ELSE LET i == CHOOSE i \in ids : TRUE
         IN  NumAdd(C6_FillEffect(ords[i], a), C6_FillSum(ids \ {i}, ords, a))

\* C6: balances move by exactly the fills of the call
C6_FillsMoveBalancesExactly ==
    [][\A a \in Assets \cup DOMAIN balances' :
          NumSub(get_asset_value(balances', a), Balance(a))
              = C6_FillSum(lastOp'.filled, orders', a)]_vars

\* a price update filled two orders at once, a buy and a sell
C6_Witness ==
    /\ PriceSet
    /\ \E i, j \in lastOp.filled :
          orders[i].side = "Buy" /\ orders[j].side = "Sell"

(***************************************************************************)
(* C7.  A market order is Filled when place_order returns, at the price p  *)
(* in effect at placement, and the settled balances move as by one         *)
(* transfer at p: a buy of quantity q moves balances[notional_asset] by    *)
(* -q*p and balances[quantity_asset] by +q, a sell the reverse.            *)
(***************************************************************************)
C7_MarketOrderIsOneTransfer ==
    [][(PlacedOk' /\ ~IsSome(lastOp'.limit_price)) =>
          LET pair == Unwrap(lastOp'.asset_pair)
              p == notional_per_unit[pair]
              q == QuantityAt(Unwrap(lastOp'.amount), p)
              sign == IF lastOp'.side = "Buy" THEN R(1) ELSE R(-1)
              order == orders'[lastOp'.order_id]
          IN  /\ order.status = "Filled"
              /\ order.average_fill_price = Some(p)
              /\ get_asset_value(balances', pair.quantity_asset)
                    = NumAdd(Balance(pair.quantity_asset), NumMul(sign, q))
              /\ get_asset_value(balances', pair.notional_asset)
                    = NumSub(Balance(pair.notional_asset),
                             NumMul(sign, NumMul(q, p)))]_vars

\* a market buy sized by its notional was placed at a price other than 1
C7_Witness ==
    /\ PlacedOk
    /\ ~IsSome(lastOp.limit_price)
    /\ lastOp.side = "Buy"
    /\ Unwrap(lastOp.amount).kind = "Notional"
    /\ orders[lastOp.order_id].average_fill_price = Some(R(2))

(***************************************************************************)
(* C8.  The fill-check fills a pending limit order exactly when the        *)
(* current price of its pair equals the limit, or the side is Buy and      *)
(* current < limit, or the side is Sell and current > limit; otherwise the *)
(* order remains New.                                                      *)
(***************************************************************************)
C8_Pending ==
    IF lastOp'.op = "place_order" THEN lastOp'.evaluated
    ELSE lastOp'.evaluated \cap NewOrders

\* C8: the fill-check fills exactly when the limit is satisfied
C8_FillCheck ==
    [][\A i \in C8_Pending :
          LET order == orders'[i]
              current == notional_per_unit'[PairOf(order)]
              satisfied == LimitSatisfied(current, Unwrap(order.limit_price),
                                          order.side)
          IN  /\ satisfied => order.status = "Filled"
              /\ ~satisfied => order.status = "New"]_vars

\* a price update ran the fill-check on the only order, a pending buy, at a
\* price equal to its limit, and settled it once
C8_Witness ==
    /\ PriceSet
    /\ \E i \in lastOp.evaluated \cap lastOp.filled :
          /\ DOMAIN orders = {i}
          /\ orders[i].side = "Buy"
          /\ Some(notional_per_unit[PairOf(orders[i])]) = orders[i].limit_price
          /\ Balance(GBP) = NumAdd(R(5), orders[i].filled_quantity)

(***************************************************************************)
(* C9.  A limit order that is New becomes Filled at the first              *)
(* set_notional_per_unit on its pair whose price satisfies its limit, at   *)
(* the newly set price: average_fill_price is that price and the settled   *)
(* quantity is recomputed from it.                                         *)
(***************************************************************************)
C9_PendingOrderFillsAtNewPrice ==
    [][(PriceSet' /\ lastOp'.result # InvalidNotionalAsset) =>
          \A i \in NewOrders :
              LET order == orders[i]
                  price == Unwrap(lastOp'.price)
              IN  (/\ PairOf(order) = Unwrap(lastOp'.asset_pair)
                   /\ LimitSatisfied(price, Unwrap(order.limit_price),
                                     order.side))
                  => /\ orders'[i].status = "Filled"
                     /\ orders'[i].average_fill_price = Some(price)
                     /\ orders'[i].filled_quantity
                            = QuantityAt(order.amount, price)]_vars

(***************************************************************************)
(* C10.  A limit order whose limit is already satisfied at placement (buy  *)
(* with limit > current price, sell with limit < current price) is Filled  *)
(* when place_order returns, at the current price and not at the limit,    *)
(* and for a buy the buying power of the notional asset ends reduced by    *)
(* exactly the actual cost.                                                *)
(***************************************************************************)
C10_MarketableLimitFillsAtCurrentPrice ==
    [][(PlacedOk' /\ IsSome(lastOp'.limit_price)) =>
          LET pair == Unwrap(lastOp'.asset_pair)
              p == notional_per_unit[pair]
              limit == Unwrap(lastOp'.limit_price)
              amount == Unwrap(lastOp'.amount)
              order == orders'[lastOp'.order_id]
          IN  /\ (lastOp'.side = "Buy" /\ NumLt(p, limit)) =>
                    /\ order.status = "Filled"
                    /\ order.average_fill_price = Some(p)
                    /\ get_asset_value(buying_power_balances',
                                       pair.notional_asset)
                          = NumSub(BuyingPower(pair.notional_asset),
                                   NotionalAt(amount, p))
              /\ (lastOp'.side = "Sell" /\ NumLt(limit, p)) =>
                    /\ order.status = "Filled"
                    /\ order.average_fill_price = Some(p)]_vars

\* a limit buy sized by its notional was placed below its limit and filled
\* at the current price
C10_Witness ==
    /\ PlacedOk
    /\ lastOp.side = "Buy"
    /\ lastOp.limit_price = Some(R(2))
    /\ Unwrap(lastOp.amount).kind = "Notional"
    /\ orders[lastOp.order_id].status = "Filled"
    /\ orders[lastOp.order_id].average_fill_price = Some(R(1))

(***************************************************************************)
(* C11.  A limit order whose limit is never satisfied by any price set     *)
(* afterwards (buy: every price > limit; sell: every price < limit) stays  *)
(* New, with filled_quantity 0 and average_fill_price None, after any      *)
(* number of set_notional_per_unit calls, and those price updates leave    *)
(* balances and buying power unchanged: over every price update that       *)
(* returns Ok with an order resting and satisfies the limit of no resting  *)
(* order, each resting order is left as it was and so are balances and     *)
(* buying power.                                                           *)
(***************************************************************************)
C11_Unsatisfied(order) ==
    /\ IsSome(order.limit_price)
    /\ ~LimitSatisfied(notional_per_unit'[PairOf(order)],
                       Unwrap(order.limit_price), order.side)

C11_UnsatisfiedLimitOrderStaysNew ==
    [][(/\ PriceSet'
        /\ lastOp'.result = Ok
        /\ NewOrders # {}
        /\ \A i \in NewOrders : C11_Unsatisfied(orders[i])) =>
          /\ \A i \in NewOrders :
                /\ i \in DOMAIN orders'
                /\ orders'[i] = orders[i]
                /\ orders'[i].status = "New"
                /\ orders'[i].filled_quantity = Zero
                /\ orders'[i].average_fill_price = None
          /\ UNCHANGED << balances, buying_power_balances >>]_vars

(***************************************************************************)
(* C12.  Balances change only when an order fills: a place_order that      *)
(* leaves a limit order resting in New status changes no balance and       *)
(* changes buying power only for the reserve asset (by minus the reserved  *)
(* amount), and a set_notional_per_unit after which no order has newly     *)
(* become Filled changes neither balances nor buying power.                *)
(***************************************************************************)
C12_BalancesChangeOnlyOnFill ==
    [][/\ (PlacedOk' /\ orders'[lastOp'.order_id].status = "New") =>
            LET pair == Unwrap(lastOp'.asset_pair)
                asset == ReserveAsset(pair, lastOp'.side)
                amount == ReserveAmount(Unwrap(lastOp'.amount),
                                        lastOp'.limit_price, lastOp'.side,
                                        notional_per_unit[pair])
            IN  /\ \A a \in Assets \cup DOMAIN balances' :
                      get_asset_value(balances', a) = Balance(a)
                /\ \A a \in Assets \cup DOMAIN buying_power_balances' :
                      get_asset_value(buying_power_balances', a)
                          = IF a = asset THEN NumSub(BuyingPower(a), amount)
                            ELSE BuyingPower(a)
       /\ (PriceSet' /\ \A i \in DOMAIN orders' :
                            orders'[i].status = "Filled" => i \in FilledOrders)
            => UNCHANGED << balances, buying_power_balances >>]_vars

(***************************************************************************)
(* C13.  Placing any order (market or limit, buy or sell, Quantity or      *)
(* Notional amount) on a pair with a valid notional asset but no price set *)
(* fails with NoNotionalPerUnit and adds no order, whatever the account's  *)
(* balances.                                                               *)
(***************************************************************************)
C13_NoPriceNoOrder ==
    [][(/\ lastOp'.op = "place_order"
        /\ Unwrap(lastOp'.asset_pair).notional_asset \in notional_assets
        /\ Unwrap(lastOp'.asset_pair) \notin DOMAIN notional_per_unit)
       => /\ lastOp'.result = NoNotionalPerUnit
          /\ UNCHANGED brokerVars]_vars

\* a limit order on a pair without a price was rejected although the
\* account held funds, another pair had a price and an order was pending
C13_Witness ==
    /\ lastOp.op = "place_order"
    /\ lastOp.result = NoNotionalPerUnit
    /\ IsSome(lastOp.limit_price)
    /\ Unwrap(lastOp.asset_pair) \notin DOMAIN notional_per_unit
    /\ DOMAIN notional_per_unit # {}
    /\ NewOrders # {}
    /\ NumLt(Zero, BuyingPower(USD))

(***************************************************************************)
(* C14.  set_notional_per_unit for a pair whose notional_asset is not in   *)
(* notional_assets (including the inverse of a tradable pair, USD/GBP when *)
(* only USD is a notional asset) fails with InvalidNotionalAsset and       *)
(* leaves the price table, the orders and the ledger unchanged.            *)
(***************************************************************************)
C14_InvalidPairSetsNoPrice ==
    [][(/\ PriceSet'
        /\ Unwrap(lastOp'.asset_pair).notional_asset \notin notional_assets)
       => /\ lastOp'.result = InvalidNotionalAsset
          /\ UNCHANGED brokerVars]_vars

\* a price for USD/GBP was refused while GBP/USD had a price and an order
\* whose limit the refused price would satisfy was pending
C14_Witness ==
    /\ PriceSet
    /\ lastOp.result = InvalidNotionalAsset
    /\ lastOp.asset_pair = Some(USDGBP)
    /\ GBPUSD \in DOMAIN notional_per_unit
    /\ USDGBP \notin DOMAIN notional_per_unit
    /\ \E i \in NewOrders :
          LimitSatisfied(Unwrap(lastOp.price), Unwrap(orders[i].limit_price),
                         orders[i].side)

(***************************************************************************)
(* C15.  Constructing a broker fails with MissingCurrencyNotionalAsset     *)
(* exactly when currency is not in notional_assets; on success             *)
(* buying_power[a] = balances[a] = starting_balances[a] for every asset a  *)
(* (0 for an asset not in starting_balances, negative starting values kept *)
(* as given), with no orders and no prices.                                *)
(***************************************************************************)
C15_ConstructionSeedsTheLedger ==
    call.op = "new" =>
        /\ call.result \in {Ok, "MissingCurrencyNotionalAsset"}
        /\ call.result = "MissingCurrencyNotionalAsset"
              <=> call.currency \notin call.notional_assets
        /\ call.result # Ok => NoBroker
        /\ call.result = Ok =>
              /\ currency = call.currency
              /\ notional_assets = call.notional_assets
              /\ \A a \in Assets :
                    /\ Balance(a) = IF a \in DOMAIN call.starting_balances
                                    THEN call.starting_balances[a]
                                    ELSE Zero
                    /\ BuyingPower(a) = Balance(a)
              /\ DOMAIN balances = DOMAIN call.starting_balances
              /\ DOMAIN buying_power_balances = DOMAIN call.starting_balances
              /\ orders = << >>
              /\ notional_per_unit = << >>

\* a broker was built with a currency that is one of two notional assets,
\* a negative starting balance and an asset without a starting balance
C15_Witness ==
    /\ call.op = "new"
    /\ call.result = Ok
    /\ currency = GBP
    /\ notional_assets = {USD, GBP}
    /\ DOMAIN call.starting_balances = {USD}
    /\ BuyingPower(USD) = R(-1)
    /\ Balance(USD) = R(-1)
    /\ Balance(GBP) = Zero

(***************************************************************************)
(* Vocabulary of the properties of the environment.                        *)
(***************************************************************************)
\* the step is a call of the named operation on the environment
Calls(ops) == calls' = calls + 1 /\ call'.op \in ops

FacadeOps == {"place_order", "get_orders", "get_order", "get_account"}

Initialized == IsSome(last_processed_time)

\* what the data source holds at time t: the latest bar that starts at or
\* before t, if there is one
LatestBar(t) ==
    LET upTo == {i \in DOMAIN ordered_bars : ordered_bars[i].date_time <= t}
    IN  IF upTo = {} THEN None
        ELSE Some(ordered_bars[CHOOSE i \in upTo : \A j \in upTo : j <= i])

MidPrice(bar) == NumDiv(NumAdd(bar.low, bar.high), R(2))

(***************************************************************************)
(* C16.  Every client facade call on an initialized environment            *)
(* (place_order, get_orders, get_order, get_account) runs update() before  *)
(* delegating to the broker: when the call returns successfully            *)
(* last_processed_time equals the clock's now, and a pending limit order   *)
(* whose limit is satisfied by the bar mid-price at now is reported Filled *)
(* by that very call, with no explicit update in between.                  *)
(***************************************************************************)
C16_FacadeCallsUpdateFirst ==
    [][(Calls(FacadeOps) /\ Initialized /\ call'.result = Ok) =>
          /\ last_processed_time' = Some(clock)
          /\ \A i \in NewOrders :
                (/\ PairOf(orders[i]) \in crypto_pairs_to_trade
                 /\ IsSome(LatestBar(clock))
                 /\ LimitSatisfied(MidPrice(Unwrap(LatestBar(clock))),
                                   Unwrap(orders[i].limit_price),
                                   orders[i].side))
                => /\ orders'[i].status = "Filled"
                   /\ (call'.op = "get_order" /\ call'.arg = Some(i))
                         => /\ call'.value = Some(orders'[i])
                            /\ Unwrap(call'.value).status = "Filled"
                   /\ call'.op = "get_orders"
                         => orders'[i] \in Unwrap(call'.value)]_vars

\* get_order, called after the clock moved to a bar whose mid-price is
\* below the limit of a pending buy, filled the order and returned it Filled
C16_Witness ==
    /\ call.op = "get_order"
    /\ call.result = Ok
    /\ call.filled = {Unwrap(call.arg)}
    /\ Unwrap(call.value).status = "Filled"
    /\ Unwrap(call.value).side = "Buy"
    /\ Unwrap(call.value).average_fill_price = Some(Frac(3, 2))
    /\ last_processed_time = Some(clock)
    /\ clock = call.now

(***************************************************************************)
(* C17.  On an environment on which init() was never called, each of       *)
(* place_order, get_orders, get_order and get_account fails with           *)
(* NotInitialized, and the broker is untouched (no order is placed, no     *)
(* price is set).                                                          *)
(***************************************************************************)
C17_FacadeNeedsInit ==
    [][(Calls(FacadeOps) /\ ~Initialized) =>
          /\ call'.result = NotInitialized
          /\ UNCHANGED << brokerVars, last_processed_time >>]_vars

\* place_order was refused on an environment never initialized, although a
\* pair was tracked and the data source had a bar for the time of the call
C17_Witness ==
    /\ call.op = "place_order"
    /\ call.result = NotInitialized
    /\ ~Initialized
    /\ GBPUSD \in crypto_pairs_to_trade
    /\ IsSome(LatestBar(call.now))
    /\ orders = << >>
    /\ notional_per_unit = << >>

(***************************************************************************)
(* C18.  init() succeeds at most once: the first init() sets               *)
(* last_processed_time to the clock's now and performs the first update;   *)
(* any later init() fails with AlreadyInitialized and changes neither      *)
(* last_processed_time nor the broker.  The first init() reads the clock   *)
(* when it stores last_processed_time (clock) and again in its update      *)
(* (clock'): it leaves the later reading when it succeeds, with the prices *)
(* of that reading, and the earlier one when the update fails.             *)
(***************************************************************************)
C18_InitOnlyOnce ==
    [][Calls({"init"}) =>
          /\ Initialized =>
                /\ call'.result = AlreadyInitialized
                /\ UNCHANGED << brokerVars, last_processed_time >>
          /\ ~Initialized =>
                /\ call'.result # AlreadyInitialized
                /\ clock' >= clock
                /\ last_processed_time'
                      = Some(IF call'.result = Ok THEN clock' ELSE clock)
                /\ call'.result = Ok =>
                      \A pair \in crypto_pairs_to_trade :
                          IsSome(LatestBar(clock')) =>
                              /\ pair \in DOMAIN notional_per_unit'
                              /\ notional_per_unit'[pair]
                                    = MidPrice(Unwrap(LatestBar(clock')))]_vars

\* a second init() was refused after the clock had moved on to a bar with
\* another mid-price: the time and the price of the first init() stayed
C18_Witness ==
    /\ call.op = "init"
    /\ call.result = AlreadyInitialized
    /\ last_processed_time = Some(0)
    /\ call.now = 2
    /\ notional_per_unit = (GBPUSD :> R(3))
    /\ MidPrice(Unwrap(LatestBar(call.now))) = Frac(3, 2)

(***************************************************************************)
(* C19.  Calling any environment operation other than init() before init() *)
(* is an error; in particular the market query get_latest_minute_bar       *)
(* called on an uninitialized environment fails instead of returning a     *)
(* bar.                                                                    *)
(***************************************************************************)
C19_EveryOperationNeedsInit ==
    [][(Calls(FacadeOps \cup {"update", "get_latest_minute_bar"})
        /\ ~Initialized)
       => call'.result # Ok]_vars

(***************************************************************************)
(* C20.  get_latest_minute_bar never leaks a currently-forming bar: with a *)
(* data source that answers a query at time t with the latest bar whose    *)
(* date_time <= t, the returned bar b always satisfies                     *)
(* b.date_time + bar_duration <= now; when the bar at now is still forming *)
(* the result is what the source returns for now - bar_duration (the last  *)
(* closed bar), and it is None when the source has no bar at or before the *)
(* queried time.                                                           *)
(***************************************************************************)
C20_Forming(bar, now) == bar.date_time + minute_bar_duration > now

\* C20: the bar returned has closed, and it is the source's answer at now,
\* or at now - bar_duration when the bar at now is still forming
C20_NoFormingBarIsReturned ==
    call.op = "get_latest_minute_bar" =>
        /\ call.result = Ok
        /\ IsSome(call.value) =>
              Unwrap(call.value).date_time + minute_bar_duration <= call.now
        /\ call.value =
              IF ~IsSome(LatestBar(call.now)) THEN None
              ELSE IF C20_Forming(Unwrap(LatestBar(call.now)), call.now)
              THEN LatestBar(call.now - minute_bar_duration)
              ELSE LatestBar(call.now)

\* the bar at now was still forming and the bar before it was returned
C20_Witness ==
    /\ call.op = "get_latest_minute_bar"
    /\ call.now = 3
    /\ LatestBar(call.now) = Some(create_bar(1, 2, 2))
    /\ call.value = Some(create_bar(2, 4, 0))

(***************************************************************************)
(* C21.  get_account reflects the broker state after any sequence of       *)
(* orders: cash = balances[currency], buying_power =                       *)
(* buying_power[currency], and open_positions has exactly one entry for    *)
(* each non-currency asset with a non-zero balance (none for an asset      *)
(* never bought), with quantity = balances[asset] and market_value =       *)
(* balances[asset] * notional_per_unit[asset/currency].                    *)
(***************************************************************************)
C21_AccountReflectsTheBroker ==
    (call.op = "get_account" /\ call.result = Ok) =>
        LET account == Unwrap(call.value)
            held == {a \in Assets \cup DOMAIN balances :
                        a # currency /\ Balance(a) # Zero}
        IN  /\ account.currency = currency
            /\ account.cash = Balance(currency)
            /\ account.buying_power = BuyingPower(currency)
            /\ DOMAIN account.open_positions = held
            /\ \A a \in held :
                  /\ account.open_positions[a].asset_symbol = a
                  /\ account.open_positions[a].quantity = Balance(a)
                  /\ AssetPair(a, currency) \in DOMAIN notional_per_unit
                  /\ account.open_positions[a].market_value
                        = Some(NumMul(Balance(a),
                                      notional_per_unit[AssetPair(a, currency)]))

\* get_account was called after a limit sell of 2 GBP filled at price 3 and
\* settled again by the update of the call: cash 21, and a position of 1 GBP
\* worth 3
C21_Witness ==
    /\ call.op = "get_account"
    /\ call.result = Ok
    /\ FilledOrders # {}
    /\ Unwrap(call.value).cash = R(21)
    /\ Unwrap(call.value).open_positions[GBP].quantity = R(1)
    /\ Unwrap(call.value).open_positions[GBP].market_value = Some(R(3))

(***************************************************************************)
(* C22.  The order table holds exactly the orders created by successful    *)
(* place_order calls: each success adds one order under a fresh id (never  *)
(* overwriting an existing order), failed calls add none, orders are never *)
(* removed, get_orders returns all of them, and get_order(id) returns the  *)
(* order whose order_id is id or fails with OrderNotFound for an id that   *)
(* was never returned.                                                     *)
(***************************************************************************)
\* the fields of an order that say which request it was created for
C22_Request(order) ==
    [order_id |-> order.order_id, asset_symbol |-> order.asset_symbol,
     amount |-> order.amount, limit_price |-> order.limit_price,
     side |-> order.side, type_ |-> order.type_]

C22_OrderTableStep ==
    /\ DOMAIN orders \subseteq DOMAIN orders'
    /\ \A i \in DOMAIN orders : C22_Request(orders'[i]) = C22_Request(orders[i])
    /\ PlacedOk' =>
          /\ lastOp'.order_id \notin DOMAIN orders
          /\ DOMAIN orders' = DOMAIN orders \cup {lastOp'.order_id}
          /\ C22_Request(orders'[lastOp'.order_id])
                = [order_id |-> lastOp'.order_id,
                   asset_symbol |-> to_string(Unwrap(lastOp'.asset_pair)),
                   amount |-> Unwrap(lastOp'.amount),
                   limit_price |-> lastOp'.limit_price,
                   side |-> lastOp'.side,
                   type_ |-> IF IsSome(lastOp'.limit_price)
                             THEN "Limit" ELSE "Market"]
    /\ ~PlacedOk' => DOMAIN orders' = DOMAIN orders
    /\ Cardinality(get_orders(Broker')) = Cardinality(DOMAIN orders')
    /\ \A i \in DOMAIN orders' : orders'[i] \in get_orders(Broker')
    /\ \A id \in OrderIds \cup {0, MaxOrders + 1} :
          IF id \in DOMAIN orders'
          THEN /\ get_order(Broker', id).result = Ok
               /\ Unwrap(get_order(Broker', id).order) = orders'[id]
               /\ orders'[id].order_id = id
          ELSE get_order(Broker', id) = [result |-> OrderNotFound, order |-> None]

C22_OrderTable == [][C22_OrderTableStep]_vars

\* a second order was placed and rests while the first one is filled
C22_Witness ==
    /\ PlacedOk
    /\ Cardinality(DOMAIN orders) = 2
    /\ lastOp.order_id \in NewOrders
    /\ FilledOrders # {}

(***************************************************************************)
(* C23.  Parsing a well-formed "A/B" string into an AssetPair              *)
(* (quantity_asset = A, notional_asset = B) and printing it back yields    *)
(* the same string, and parsing the printed form of an AssetPair yields    *)
(* that same pair.  The second half is stated twice: as the claim has it,  *)
(* for any AssetPair (C23_AnyPairRoundTrips), and for the pairs whose      *)
(* asset names contain no "/" (C23_RoundTrip).                             *)
(***************************************************************************)
\* the positions of "/" in s
C23_Slashes(s) == {k \in DOMAIN s : s[k] = "/"}

\* s is A/B with no "/" in A and B
C23_WellFormed(s) == Cardinality(C23_Slashes(s)) = 1

C23_ParsePrint ==
    (call.op = "from_str" /\ C23_WellFormed(call.s)) =>
        LET k == CHOOSE k \in C23_Slashes(call.s) : TRUE
        IN  /\ ~call.panic
            /\ call.asset_pair
                  = Some(AssetPair(SubSeq(call.s, 1, k - 1),
                                   SubSeq(call.s, k + 1, Len(call.s))))
            /\ call.printed = Some(call.s)

C23_PrintParse == ~call.panic /\ call.parsed = Some(call.asset_pair)

C23_AnyPairRoundTrips ==
    /\ C23_ParsePrint
    /\ call.op = "to_string" => C23_PrintParse

C23_RoundTrip ==
    /\ C23_ParsePrint
    /\ (/\ call.op = "to_string"
        /\ C23_Slashes(call.asset_pair.quantity_asset) = {}
        /\ C23_Slashes(call.asset_pair.notional_asset) = {})
          => C23_PrintParse

\* GBP/USD, the pair of the orders, was printed and parsed back
C23_Witness ==
    /\ call.op = "to_string"
    /\ call.asset_pair = GBPUSD
    /\ call.s = << "G", "B", "P", "/", "U", "S", "D" >>
    /\ call.parsed = Some(GBPUSD)

(***************************************************************************)
(* C24.  No balance ever becomes negative: starting from non-negative      *)
(* balances with buying_power equal to balances, after any sequence of     *)
(* place_order and set_notional_per_unit calls with positive prices,       *)
(* positive amounts and positive limit prices, balances[a] >= 0 for every  *)
(* asset a.                                                                *)
(***************************************************************************)
C24_NoBalanceIsNegative ==
    \A a \in DOMAIN balances : NumLe(Zero, balances[a])

(***************************************************************************)
(* C25.  When a limit buy fills, the amount refunded to                    *)
(* buying_power[notional_asset] equals the amount reserved for that order  *)
(* at placement minus the notional actually paid at fill, for Quantity and *)
(* for Notional amounts alike: when a price update fills one pending limit *)
(* buy and settles no other order, buying_power[notional_asset] rises by   *)
(* reserved - paid, so that over placement plus fill it has decreased by   *)
(* exactly the actual cost.                                                *)
(***************************************************************************)
C25_RefundIsReservedMinusPaid ==
    [][PriceSet' =>
          \A i \in NewOrders :
              (/\ lastOp'.filled = {i}
               /\ orders[i].side = "Buy")
              => LET notional_asset == PairOf(orders[i]).notional_asset
                     paid == NumMul(orders'[i].filled_quantity,
                                    Unwrap(orders'[i].average_fill_price))
                 IN  /\ reserved[i].asset = notional_asset
                     /\ get_asset_value(buying_power_balances', notional_asset)
                           = NumAdd(BuyingPower(notional_asset),
                                    NumSub(reserved[i].amount, paid))]_vars

(***************************************************************************)
(* C26.  After a market order has been placed (and so is Filled with no    *)
(* limit price), a later set_notional_per_unit on a valid pair still       *)
(* returns successfully: price updates never fail or abort because a       *)
(* market order is in the order table.                                     *)
(***************************************************************************)
C26_PriceUpdateSurvivesMarketOrders ==
    [][(/\ PriceSet'
        /\ Unwrap(lastOp'.asset_pair).notional_asset \in notional_assets
        /\ \E i \in DOMAIN orders : orders[i].type_ = "Market")
          => /\ lastOp'.result = Ok
             /\ ~panicked']_vars

(***************************************************************************)
(* C27.  The reservation taken by place_order is: for a buy,               *)
(* limit_price*quantity from buying_power[notional_asset] when a limit is  *)
(* set and the notional otherwise; for a sell, the quantity from           *)
(* buying_power[quantity_asset]; exactly that amount is deducted from      *)
(* exactly that asset and no other buying_power entry changes at           *)
(* reservation.  Over a successful place_order, every buying power is      *)
(* what it was, minus the reservation for the reserve asset, plus, when    *)
(* the order was filled in the same call, what the fill credits.           *)
(***************************************************************************)
\* what the fill of a buy or sell order adds to the buying power of asset a
C27_FillCredit(order, limit_price, a) ==
    LET pair == PairOf(order)
        q == order.filled_quantity
        n == NumMul(order.filled_quantity, Unwrap(order.average_fill_price))
        bought == IF a = pair.quantity_asset THEN q ELSE Zero
        refund == IF a = pair.notional_asset /\ IsSome(limit_price)
                  THEN NumSub(NumMul(Unwrap(limit_price), q), n) ELSE Zero
    IN  IF order.status # "Filled" THEN Zero
        ELSE IF order.side = "Buy" THEN NumAdd(bought, refund)
        ELSE IF a = pair.notional_asset THEN n
        ELSE Zero

C27_ReservationStep ==
    PlacedOk' =>
        LET pair == Unwrap(lastOp'.asset_pair)
            id == lastOp'.order_id
            asset == IF lastOp'.side = "Buy" THEN pair.notional_asset
                     ELSE pair.quantity_asset
            amount == ReserveAmount(Unwrap(lastOp'.amount), lastOp'.limit_price,
                                    lastOp'.side, notional_per_unit[pair])
        IN  /\ reserved'[id].asset = asset
            /\ reserved'[id].amount = amount
            /\ \A a \in Assets \cup DOMAIN buying_power_balances' :
                  get_asset_value(buying_power_balances', a)
                      = NumAdd(NumSub(BuyingPower(a),
                                      IF a = asset THEN amount ELSE Zero),
                               C27_FillCredit(orders'[id], lastOp'.limit_price, a))

C27_ReservationIsTakenAsSpecified == [][C27_ReservationStep]_vars

\* a limit buy of Quantity 2 at limit 2 was placed at price 3 and rests:
\* 4 USD are reserved, the buying power of GBP is untouched
C27_Witness ==
    /\ PlacedOk
    /\ lastOp.order_id \in NewOrders
    /\ lastOp.side = "Buy"
    /\ lastOp.amount = Some(Quantity(R(2)))
    /\ notional_per_unit[GBPUSD] = R(3)
    /\ DOMAIN orders = {lastOp.order_id}
    /\ BuyingPower(USD) = R(5)
    /\ BuyingPower(GBP) = R(5)

(***************************************************************************)
(* C28.  The (quantity, notional) of an order is derived from its amount   *)
(* and the price in effect: Quantity{q} gives quantity = q and notional =  *)
(* q*price, Notional{n} gives notional = n and quantity = n/price; a       *)
(* filled order records filled_quantity = quantity and average_fill_price  *)
(* = notional/quantity, which equals the fill-time price.                  *)
(***************************************************************************)
C28_Derived(amount, price, quantity, notional) ==
    IF amount.kind = "Quantity"
    THEN quantity = amount.value /\ notional = NumMul(amount.value, price)
    ELSE notional = amount.value /\ quantity = NumDiv(amount.value, price)

C28_FillStep ==
    LET derives(amount, price, qn) ==
            /\ qn.result = Ok
            /\ C28_Derived(amount, price, qn.quantity, qn.notional)
        recorded(order, price) ==
            \E quantity, notional \in
                  {order.filled_quantity, NumMul(order.filled_quantity, price)} :
                /\ C28_Derived(order.amount, price, quantity, notional)
                /\ order.status = "Filled"
                /\ order.filled_quantity = quantity
                /\ order.average_fill_price = Some(NumDiv(notional, quantity))
                /\ order.average_fill_price = Some(price)
        records(order) == recorded(order, notional_per_unit'[PairOf(order)])
    IN  /\ (lastOp'.result = Ok /\ lastOp'.op # "new") =>
              \A amount \in AmountInputs :
                  derives(amount,
                          notional_per_unit'[Unwrap(lastOp'.asset_pair)],
                          get_current_quantity_and_notional(
                              Broker', to_string(Unwrap(lastOp'.asset_pair)),
                              amount))
        /\ \A i \in lastOp'.filled : records(orders'[i])

C28_FillRecordsQuantityAndPrice == [][C28_FillStep]_vars

\* a resting limit sell of Notional 3 was filled by a price update to 3:
\* it records quantity 1 at price 3
C28_Witness ==
    /\ PriceSet
    /\ lastOp.price = Some(R(3))
    /\ \E i \in lastOp.filled :
          /\ orders[i].amount = Notional(R(3))
          /\ orders[i].side = "Sell"
          /\ orders[i].filled_quantity = R(1)
          /\ orders[i].average_fill_price = Some(R(3))

(***************************************************************************)
(* C29.  A successful set_notional_per_unit(p, x) changes the price of     *)
(* pair p only (no entry for the inverse pair or for any other pair is     *)
(* created or changed), and it changes no order placed on a pair other     *)
(* than p and no balance or buying_power of an asset that is not a leg of  *)
(* p.                                                                      *)
(***************************************************************************)
C29_PriceUpdateTouchesItsPairOnly ==
    [][(PriceSet' /\ lastOp'.result = Ok) =>
          LET p == Unwrap(lastOp'.asset_pair)
              x == Unwrap(lastOp'.price)
          IN  /\ notional_per_unit'
                    = [q \in DOMAIN notional_per_unit \cup {p} |->
                          IF q = p THEN x ELSE notional_per_unit[q]]
              /\ \A i \in DOMAIN orders :
                    PairOf(orders[i]) # p => orders'[i] = orders[i]
              /\ \A a \in (Assets \cup DOMAIN balances')
                            \ {p.quantity_asset, p.notional_asset} :
                    /\ get_asset_value(balances', a) = Balance(a)
                    /\ get_asset_value(buying_power_balances', a)
                          = BuyingPower(a)]_vars

(***************************************************************************)
(* C30.  Two brokers constructed identically and given the same sequence   *)
(* of place_order and set_notional_per_unit calls end with identical       *)
(* balances, buying power, prices and order records, whatever order        *)
(* set_notional_per_unit happens to iterate over the order table in: from  *)
(* the same state, the same price update leaves the same broker and        *)
(* returns the same result under every iteration order.                    *)
(***************************************************************************)
C30_IterationOrderIsIrrelevant ==
    [][PriceSet' =>
          \A order_ids \in Orderings(DOMAIN orders) :
              LET same(r) ==
                      /\ r.result = lastOp'.result
                      /\ r.b.balances = balances'
                      /\ r.b.buying_power_balances = buying_power_balances'
                      /\ r.b.notional_per_unit = notional_per_unit'
                      /\ r.b.orders = orders'
              IN  same(set_notional_per_unit(Broker,
                                             Unwrap(lastOp'.asset_pair),
                                             Unwrap(lastOp'.price),
                                             order_ids))]_vars

(***************************************************************************)
(* C31.  update() always terminates: for any last_processed_time <= now    *)
(* and any refresh interval the environment builder accepts, the stepping  *)
(* t := min(t + refresh_interval, now) reaches t == now after finitely     *)
(* many passes, performs the final pass at now and then sets               *)
(* last_processed_time = now.                                              *)
(***************************************************************************)
C31_UpdateTerminates ==
    (call.pc = "enter" /\ Unwrap(last_processed_time) <= clock)
        ~> (/\ call.pc = "returned"
            /\ call.last_pass = Some(clock)
            /\ last_processed_time = Some(clock))

(***************************************************************************)
(* C32.  When update() catches up over several missed refresh ticks it     *)
(* samples the bar data source at each stepped time t                      *)
(* (last_processed_time, then +refresh_interval, ..., up to now) and       *)
(* pushes that step's mid-price into the broker, so a pending limit order  *)
(* whose limit was satisfied only at an intermediate tick is filled by the *)
(* replay: after a successful update, every order that was pending on a    *)
(* tracked pair and whose limit is satisfied by the mid-price at some      *)
(* stepped time is Filled.                                                 *)
(***************************************************************************)
\* the times the replay steps through, from the last processed time to now
C32_SteppedTimes ==
    {t \in Unwrap(last_processed_time) .. clock :
        \/ t = clock
        \/ (t - Unwrap(last_processed_time)) % refresh_duration = 0}

C32_ReplayFillsAtIntermediateTicks ==
    [][(/\ Calls(FacadeOps \cup {"update"})
        /\ Initialized
        /\ call'.result = Ok) =>
          \A i \in NewOrders :
              (/\ PairOf(orders[i]) \in crypto_pairs_to_trade
               /\ \E t \in C32_SteppedTimes :
                     /\ IsSome(LatestBar(t))
                     /\ LimitSatisfied(MidPrice(Unwrap(LatestBar(t))),
                                       Unwrap(orders[i].limit_price),
                                       orders[i].side))
              => orders'[i].status = "Filled"]_vars

(***************************************************************************)
(* C33.  After every successful update(), for any clock reading (also one  *)
(* not later than last_processed_time), each tracked pair for which the    *)
(* data source returns a bar at now has broker price (bar.low +            *)
(* bar.high)/2 of that bar, while tracked pairs with no bar and all        *)
(* untracked pairs keep their previous price (or stay unpriced).           *)
(***************************************************************************)
C33_UpdateSetsThePricesOfNow ==
    [][(Calls({"update"}) /\ call'.result = Ok) =>
          \A pair \in Pairs \cup crypto_pairs_to_trade :
              IF pair \in crypto_pairs_to_trade /\ IsSome(LatestBar(clock))
              THEN /\ pair \in DOMAIN notional_per_unit'
                   /\ notional_per_unit'[pair]
                         = MidPrice(Unwrap(LatestBar(clock)))
              ELSE /\ pair \in DOMAIN notional_per_unit'
                         <=> pair \in DOMAIN notional_per_unit
                   /\ pair \in DOMAIN notional_per_unit
                         => notional_per_unit'[pair] = notional_per_unit[pair]
      ]_vars

(***************************************************************************)
(* C34.  A market call on an initialized environment performs the implicit *)
(* update() just as a client call does: after get_latest_bar returns,      *)
(* last_processed_time equals the clock's now and the broker's prices and  *)
(* pending limit orders have been refreshed to now.  Checked for the       *)
(* environments whose tracked pairs the broker accepts, on which an update *)
(* can succeed.                                                            *)
(***************************************************************************)
C34_MarketCallUpdatesFirst ==
    [][(/\ Calls({"get_latest_minute_bar"})
        /\ Initialized
        /\ \A pair \in crypto_pairs_to_trade :
              pair.notional_asset \in notional_assets) =>
          /\ last_processed_time' = Some(clock)
          /\ IsSome(LatestBar(clock)) =>
                /\ \A pair \in crypto_pairs_to_trade :
                      /\ pair \in DOMAIN notional_per_unit'
                      /\ notional_per_unit'[pair]
                            = MidPrice(Unwrap(LatestBar(clock)))
                /\ \A i \in NewOrders :
                      (/\ PairOf(orders[i]) \in crypto_pairs_to_trade
                       /\ LimitSatisfied(MidPrice(Unwrap(LatestBar(clock))),
                                         Unwrap(orders[i].limit_price),
                                         orders[i].side))
                      => orders'[i].status = "Filled"]_vars

(***************************************************************************)
(* C35.  After every completed place_order or set_notional_per_unit, every *)
(* order in New status is a Limit order whose fill condition is false at   *)
(* the current price of its pair (buy: current > limit; sell: current <    *)
(* limit): no market order and no fillable limit order is ever left        *)
(* resting.                                                                *)
(***************************************************************************)
C35_RestingOrdersAreUnfillable ==
    ~panicked =>
        \A i \in NewOrders :
            /\ orders[i].type_ = "Limit"
            /\ IsSome(orders[i].limit_price)
            /\ PairOf(orders[i]) \in DOMAIN notional_per_unit
            /\ IF orders[i].side = "Buy"
               THEN NumLt(Unwrap(orders[i].limit_price),
                          notional_per_unit[PairOf(orders[i])])
               ELSE NumLt(notional_per_unit[PairOf(orders[i])],
                          Unwrap(orders[i].limit_price))

\* a price update evaluated two pending orders on the pair, filled the sell
\* and left the buy resting, its limit 2 below the new price 3
C35_Witness ==
    /\ PriceSet
    /\ lastOp.result = Ok
    /\ lastOp.price = Some(R(3))
    /\ \E i \in lastOp.evaluated \cap NewOrders, j \in lastOp.filled :
          /\ orders[i].side = "Buy"
          /\ orders[j].side = "Sell"
          /\ orders[i].limit_price = Some(R(2))

(***************************************************************************)
(* C36.  The environment counts as initialized only after an init() that   *)
(* succeeded: if init() returns an error (the data source fails or the     *)
(* broker rejects a tracked pair during the first update),                 *)
(* last_processed_time stays unset, so that the client operations still    *)
(* fail with NotInitialized and a later init() is not rejected with        *)
(* AlreadyInitialized.                                                     *)
(***************************************************************************)
C36_FailedInitLeavesUninitialized ==
    [][/\ (Calls({"init"}) /\ ~Initialized /\ call'.result # Ok)
            => last_processed_time' = None
       /\ (Calls(FacadeOps) /\ call.op = "init" /\ call.result # Ok
             /\ call.result # AlreadyInitialized)
            => call'.result = NotInitialized
       /\ (Calls({"init"}) /\ call.op = "init" /\ call.result # Ok
             /\ call.result # AlreadyInitialized)
            => call'.result # AlreadyInitialized]_vars

(***************************************************************************)
(* C37.  Every order in the order table refers to a pair that has a price  *)
(* in notional_per_unit with a valid notional asset (an order is inserted  *)
(* only after the price lookup succeeded, and prices and notional assets   *)
(* are never removed), so re-evaluating orders during                      *)
(* set_notional_per_unit never fails with NoNotionalPerUnit or             *)
(* InvalidNotionalAsset after the new price has already been stored.       *)
(***************************************************************************)
C37_OrdersArePriced ==
    \A i \in DOMAIN orders :
        /\ PairOf(orders[i]) \in DOMAIN notional_per_unit
        /\ PairOf(orders[i]).notional_asset \in notional_assets

C37_Step ==
    /\ C37_OrdersArePriced'
    /\ DOMAIN notional_per_unit \subseteq DOMAIN notional_per_unit'
    /\ notional_assets \subseteq notional_assets'
    /\ (PriceSet' /\ lastOp'.result \in {NoNotionalPerUnit, InvalidNotionalAsset})
          => /\ notional_per_unit' = notional_per_unit
             /\ lastOp'.evaluated = {}
             /\ Unwrap(lastOp'.asset_pair).notional_asset \notin notional_assets

C37_ReevaluationFindsEveryPrice == [][C37_Step]_vars

\* a price update on BTC/USD re-evaluated a pending order on GBP/USD and
\* found the price of that other pair
C37_Witness ==
    /\ PriceSet
    /\ lastOp.result = Ok
    /\ lastOp.asset_pair = Some(BTCUSD)
    /\ \E i \in lastOp.evaluated \cap NewOrders :
          /\ PairOf(orders[i]) = GBPUSD
          /\ GBPUSD \in DOMAIN notional_per_unit

====
